---- MODULE Spec2Model ----
(***************************************************************************)
(* A model of mini-agent-ts: the two streaming provider adapters           *)
(* (OpenAIClient, AnthropicClient), their message conversion, and the      *)
(* Agent loop.                                                             *)
(*                                                                         *)
(* Conventions.  An optional value (undefined / null / absent field) is a  *)
(* sequence of length 0 or 1: None is <<>>, Some(x) is <<x>>.  Text that   *)
(* the code only concatenates and tests for emptiness (content, thinking,  *)
(* names, identifiers) is a string.  Tool-argument text is a sequence of   *)
(* JSON tokens, because the code parses it.                                *)
(***************************************************************************)
EXTENDS Integers, Sequences, FiniteSets, TLC

VARIABLES
  provider,             \* which adapter runs the current generateStream call
  pcStream,             \* position of the generateStream generator
  events,               \* backend stream events consumed so far, in order
  yielded,              \* chunks the generator has yielded so far, in order
  toolCallAcc,          \* OpenAI: Map<index, {id,type,name,argumentsText}>, insertion order
  finalToolCalls,       \* OpenAI: finalToolCalls (undefined until a finish reason)
  finalFinishReason,    \* OpenAI: finalFinishReason
  accumulatedToolCalls, \* Anthropic: accumulatedToolCalls
  currentToolCall,      \* Anthropic: currentToolCall (null or the open buffer)
  finishReason,         \* Anthropic: finishReason
  fullContent,          \* both: fullContent
  fullThinking,         \* both: fullThinking
  chunkCount,           \* both: chunkCount
  convProvider,         \* which adapter's prepareRequest is called
  inputMessages,        \* the caller's message list handed to prepareRequest
  originalMessages,     \* the caller's message list as it was before any call
  toolsInput,           \* the caller's tools argument
  pcConv,               \* position inside prepareRequest / convertMessages
  cursor,               \* convertMessages: index of the message the loop is at
  systemPrompt,         \* convertMessages: systemPrompt
  apiMessages,          \* convertMessages: apiMessages
  payloads,             \* each prepareRequest payload so far, as serialised when it returned
  messages,             \* Agent.messages
  maxSteps,             \* Agent.maxSteps
  runs,                 \* one record per call of run(), in call order
  removed,              \* what the last clearHistoryKeepSystem() returned
  agentSystemPrompt,    \* Agent.systemPrompt
  lastCall,             \* the Agent method whose code ran in the last step
  addCalls,             \* how many times addUserMessage has been called
  \* LLMClient (facade)
  facadeArgs,           \* the arguments of new LLMClient(...)
  pcFacade,             \* position of the facade: constructor, checkConnection
  llmClient,            \* the LLMClient instance, if the constructor returned one
  adapters,             \* the adapters constructed so far, in order
  thrown,               \* the message of the error thrown by the constructor, if any
  probes,               \* the generateStream calls made by checkConnection, in order
  chunksRead,           \* chunks the current checkConnection has read from its generator
  connected,            \* what the last checkConnection() resolved to
  attempts,             \* requests the transport has sent for the current model call
  \* A consumer of a generateStream generator
  consumer,             \* who holds the generator: an iteration over the facade's, or
                        \* checkConnection over the adapter's
  backend,              \* the events the backend stream delivers to this call, in order
  pcConsumer,           \* position of the consumer
  received,             \* the chunks the consumer's next() calls resolved with, in order
  caught,               \* the error a next() call rejected with, if any
  streamError,          \* the error the backend stream threw inside the adapter, if any
  callArgs,             \* the arguments of the consumer's generateStream call
  adapterArgs,          \* the arguments the adapter's generateStream was called with
  readAtStop,           \* events read from the backend when the consumer stopped
  \* Two generateStream calls in progress on one adapter instance
  pairProvider,         \* the adapter's kind
  locals,               \* the accumulation state (the let/const of generateStream), by scope
  callEvents,           \* the backend events each call has read, in order
  callYielded,          \* the chunks each call has yielded, in order
  readOrder             \* which call read, read by read

streamVars == <<provider, pcStream, events, yielded, toolCallAcc, finalToolCalls,
                finalFinishReason, accumulatedToolCalls, currentToolCall,
                finishReason, fullContent, fullThinking, chunkCount>>

convVars == <<convProvider, inputMessages, originalMessages, toolsInput, pcConv, cursor,
              systemPrompt, apiMessages, payloads>>

agentVars == <<messages, maxSteps, runs, removed, agentSystemPrompt, lastCall, addCalls>>

facadeVars == <<facadeArgs, pcFacade, llmClient, adapters, thrown, probes, attempts, chunksRead,
                connected>>
consumerVars == <<consumer, backend, pcConsumer, received, caught, streamError, callArgs,
                  adapterArgs, readAtStop>>

pairVars == <<pairProvider, locals, callEvents, callYielded, readOrder>>

vars == <<streamVars, convVars, agentVars, facadeVars, consumerVars, pairVars>>

-----------------------------------------------------------------------------
(* Bounds *)

\* Backend events delivered to one generateStream call.
MaxEvents == 4

-----------------------------------------------------------------------------
(* Optional values and JavaScript truthiness *)

None == <<>>
Some(x) == <<x>>

\* JavaScript truthiness of an optional string: undefined, null and "" are falsy.
TruthyStr(o) == o # None /\ o[1] # ""

\* `x || undefined` for an optional string.
OrUndefined(o) == IF TruthyStr(o) THEN o ELSE None

-----------------------------------------------------------------------------
(* JSON.parse on tool-argument text                                        *)
(*                                                                         *)
(* Argument text is a sequence over the tokens { } "a" : 1.  A token is    *)
(* the unit a fragment boundary can fall on.  Over these tokens the JSON   *)
(* grammar is: a number (one or more digits 1), the string "a", the empty  *)
(* object {}, or an object {"a":value}.  Values are records: [num |-> n],  *)
(* [str |-> s], [obj |-> members] where members is the sequence of the     *)
(* values of key "a" (empty or one element).                               *)

Tokens == {"{", "}", "\"a\"", ":", "1"}

EmptyObject == [obj |-> <<>>]

AllOnes(s) == \A i \in 1..Len(s) : s[i] = "1"

RECURSIVE NumberOf(_)
NumberOf(s) == IF s = <<>> THEN 0 ELSE 10 * NumberOf(SubSeq(s, 1, Len(s) - 1)) + 1

\* JSON.parse(text): [ok |-> TRUE, value |-> v] or [ok |-> FALSE] for a SyntaxError.
RECURSIVE JSONParse(_)
JSONParse(s) ==
  IF s # <<>> /\ AllOnes(s) THEN [ok |-> TRUE, value |-> [num |-> NumberOf(s)]]
  ELSE IF s = <<"\"a\"">> THEN [ok |-> TRUE, value |-> [str |-> "a"]]
  ELSE IF s = <<"{", "}">> THEN [ok |-> TRUE, value |-> EmptyObject]
  ELSE IF /\ Len(s) >= 5
          /\ s[1] = "{" /\ s[2] = "\"a\"" /\ s[3] = ":" /\ s[Len(s)] = "}"
       THEN LET inner == JSONParse(SubSeq(s, 4, Len(s) - 1))
            IN  IF inner.ok
                THEN [ok |-> TRUE, value |-> [obj |-> <<inner.value>>]]
                ELSE [ok |-> FALSE]
  ELSE [ok |-> FALSE]

-----------------------------------------------------------------------------
(* Stream chunks yielded to the caller (LLMStreamChunk) *)

Chunk(content, thinking, tool_calls, done, finish_reason) ==
  [content |-> content, thinking |-> thinking, tool_calls |-> tool_calls,
   done |-> done, finish_reason |-> finish_reason]

ToolCall(id, type, name, arguments) ==
  [id |-> id, type |-> type, function |-> [name |-> name, arguments |-> arguments]]

-----------------------------------------------------------------------------
(* OpenAI adapter: backend chunks                                          *)
(*                                                                         *)
(* A backend chunk is [choices |-> <<>> or <<choice>>]; a choice is        *)
(* [delta, finish_reason]; a delta is [content, reasoning, tool_calls];    *)
(* a tool-call delta is [index, id, type, name, arguments], where name and *)
(* arguments are the fields of call.function.  Every field is optional.    *)
(* finish_reason is null or one of the protocol's reason codes.            *)

CallDelta(index, id, type, name, arguments) ==
  [index |-> index, id |-> id, type |-> type, name |-> name, arguments |-> arguments]

Delta(content, reasoning, tool_calls) ==
  [content |-> content, reasoning |-> reasoning, tool_calls |-> tool_calls]

OAChunk(delta, finish_reason) ==
  [choices |-> <<[delta |-> delta, finish_reason |-> finish_reason]>>]

\* A chunk with an empty choices array (for instance a usage chunk).
OANoChoice == [choices |-> <<>>]

OACallDeltas ==
  { CallDelta(Some(0), Some("call_1"), Some("function"), Some("get"),
              Some(<<"{", "\"a\"", ":">>)),
    CallDelta(Some(0), None, None, None, Some(<<"1", "}">>)),
    CallDelta(Some(0), None, None, Some("_w"), None),
    CallDelta(Some(1), Some("call_2"), Some("function"), Some("put"), Some(<<>>)),
    CallDelta(Some(1), None, None, None, Some(<<"{">>)),
    CallDelta(Some(1), None, None, None, Some(<<"}">>)),
    CallDelta(None, None, None, None, Some(<<"1">>)) }

OAChunks ==
  { OAChunk(Delta(Some("a"), None, None), None),
    OAChunk(Delta(Some("b"), Some("s"), None), None),
    OAChunk(Delta(Some(""), Some("r"), None), None),
    OAChunk(Delta(None, None, None), Some("stop")),
    OAChunk(Delta(None, None, None), Some("tool_calls")),
    OANoChoice }
  \cup { OAChunk(Delta(None, None, Some(<<c>>)), None) : c \in OACallDeltas }
  \cup { OAChunk(Delta(None, None,
                       Some(<< CallDelta(Some(1), Some("call_2"), Some("function"),
                                         Some("put"), Some(<<"{", "}">>)),
                               CallDelta(Some(0), Some("call_1"), Some("function"),
                                         Some("get"), Some(<<"{">>)) >>)),
                 Some("tool_calls")) }

-----------------------------------------------------------------------------
(* OpenAI adapter: generateStream *)

\* chunk.choices[0]?.delta and chunk.choices[0]?.finish_reason
DeltaOf(chunk) == IF chunk.choices = <<>> THEN None ELSE Some(chunk.choices[1].delta)
FinishReasonOf(chunk) ==
  IF chunk.choices = <<>> THEN None ELSE chunk.choices[1].finish_reason

\* delta?.content and delta?.reasoning
DeltaContent(d) == IF d = None THEN None ELSE d[1].content

\* Mutant: the thinking field is read from the text of the delta.
ReasoningFromContent(d) == IF d = None THEN None ELSE d[1].content

DeltaReasoning(d) == IF d = None THEN None ELSE d[1].reasoning

\* typeof call.index === "number" ? call.index : 0
IndexOf(call) == IF call.index # None THEN call.index[1] ELSE 0

HasIndex(acc, index) == \E i \in 1..Len(acc) : acc[i].index = index

PositionOf(acc, index) == CHOOSE i \in 1..Len(acc) : acc[i].index = index

NewEntry(index) ==
  [index |-> index, id |-> "", type |-> "function", name |-> "", argumentsText |-> <<>>]

\* existing.name += call.function.name
AppendName(existing, fragment) == existing \o fragment

\* Mutant: `=` in place of `+=`, the fragment overwrites what was accumulated.
OverwriteArguments(existing, fragment) == fragment

\* existing.argumentsText += call.function.arguments
AppendArguments(existing, fragment) == existing \o fragment

\* Mutant: the entry of a new index is put in front of the entries already there.
AccumulateCallPrepends(acc, call) ==
  LET index == IndexOf(call)
      acc1 == IF HasIndex(acc, index) THEN acc ELSE <<NewEntry(index)>> \o acc
      p == PositionOf(acc1, index)
      existing == acc1[p]
      updated ==
        [existing EXCEPT
           !.id = IF TruthyStr(call.id) THEN call.id[1] ELSE @,
           !.type = IF TruthyStr(call.type) THEN call.type[1] ELSE @,
           !.name = IF TruthyStr(call.name) THEN AppendName(@, call.name[1]) ELSE @,
           !.argumentsText =
              IF call.arguments # None /\ call.arguments[1] # <<>>
              THEN AppendArguments(@, call.arguments[1]) ELSE @]
  IN  [acc1 EXCEPT ![p] = updated]

\* The body of `for (const call of incoming)` for one call.
AccumulateCall(acc, call) ==
  LET index == IndexOf(call)
      acc1 == IF HasIndex(acc, index) THEN acc ELSE Append(acc, NewEntry(index))
      p == PositionOf(acc1, index)
      existing == acc1[p]
      updated ==
        [existing EXCEPT
           !.id = IF TruthyStr(call.id) THEN call.id[1] ELSE @,
           !.type = IF TruthyStr(call.type) THEN call.type[1] ELSE @,
           !.name = IF TruthyStr(call.name) THEN AppendName(@, call.name[1]) ELSE @,
           !.argumentsText =
              IF call.arguments # None /\ call.arguments[1] # <<>>
              THEN AppendArguments(@, call.arguments[1]) ELSE @]
  IN  [acc1 EXCEPT ![p] = updated]

RECURSIVE AccumulateCalls(_, _)
AccumulateCalls(acc, incoming) ==
  IF incoming = <<>> THEN acc
  ELSE AccumulateCalls(AccumulateCall(acc, Head(incoming)), Tail(incoming))

\* if (delta && delta.tool_calls) { for (const call of incoming) ... }
AccumulateDelta(acc, d) ==
  IF d # None /\ d[1].tool_calls # None
  THEN AccumulateCalls(acc, d[1].tool_calls[1])
  ELSE acc

\* Mutant: the catch block keeps the raw text instead of resetting to {}.
OAParsedArgsKeepsText(argumentsText) ==
  IF argumentsText # <<>>
  THEN IF JSONParse(argumentsText).ok THEN JSONParse(argumentsText).value
       ELSE [raw |-> argumentsText]
  ELSE EmptyObject

\* parsedArgs of one accumulated entry: {} for empty or unparseable text.
OAParsedArgs(argumentsText) ==
  IF argumentsText # <<>>
  THEN IF JSONParse(argumentsText).ok THEN JSONParse(argumentsText).value
       ELSE EmptyObject
  ELSE EmptyObject

\* Array.from(toolCallAcc.values()).map(...)
OABuildToolCalls(acc) ==
  [i \in 1..Len(acc) |->
     ToolCall(acc[i].id, acc[i].type, acc[i].name, OAParsedArgs(acc[i].argumentsText))]

\* Mutant: the list is rebuilt on every chunk, finish reason or not.
OAFinalToolCallsEager(previous, finish, acc) ==
  IF Len(acc) > 0 THEN Some(OABuildToolCalls(acc)) ELSE previous

\* finalToolCalls after this chunk: rebuilt when the chunk has a finish reason and
\* the accumulator is not empty, otherwise whatever it was.
OAFinalToolCalls(previous, finish, acc) ==
  IF TruthyStr(finish) /\ Len(acc) > 0 THEN Some(OABuildToolCalls(acc)) ELSE previous

\* Mutant: done is never set.
OAYieldWithoutDone(d, finish, final) ==
  Chunk(OrUndefined(DeltaContent(d)), OrUndefined(DeltaReasoning(d)), final,
        FALSE, OrUndefined(finish))

\* The object of the `yield` statement.
OAYield(d, finish, final) ==
  Chunk(OrUndefined(DeltaContent(d)), OrUndefined(DeltaReasoning(d)), final,
        finish # None, OrUndefined(finish))

\* One iteration of `for await (const chunk of stream)`.
OAStep(chunk) ==
  /\ provider = "openai"
  /\ pcStream = "running"
  /\ Len(events) < MaxEvents
  /\ LET d == DeltaOf(chunk)
         finish == FinishReasonOf(chunk)
         acc == AccumulateDelta(toolCallAcc, d)
         final == OAFinalToolCalls(finalToolCalls, finish, acc)
     IN  /\ events' = Append(events, chunk)
         /\ chunkCount' = chunkCount + 1
         /\ fullContent' = IF TruthyStr(DeltaContent(d))
                           THEN fullContent \o DeltaContent(d)[1] ELSE fullContent
         /\ fullThinking' = IF TruthyStr(DeltaReasoning(d))
                            THEN fullThinking \o DeltaReasoning(d)[1] ELSE fullThinking
         /\ finalFinishReason' = IF TruthyStr(finish) THEN finish ELSE finalFinishReason
         /\ toolCallAcc' = acc
         /\ finalToolCalls' = final
         /\ yielded' = Append(yielded, OAYield(d, finish, final))
  /\ UNCHANGED <<provider, pcStream, accumulatedToolCalls, currentToolCall, finishReason>>
  /\ UNCHANGED <<convVars, agentVars, facadeVars, consumerVars, pairVars>>

OAReceive == \E chunk \in OAChunks : OAStep(chunk)

\* The backend stream ends: the loop exits, the response is logged, the generator returns.
StreamEnd ==
  /\ pcStream = "running"
  /\ pcStream' = "ended"
  /\ UNCHANGED <<provider, events, yielded, toolCallAcc, finalToolCalls,
                 finalFinishReason, accumulatedToolCalls, currentToolCall,
                 finishReason, fullContent, fullThinking, chunkCount>>
  /\ UNCHANGED <<convVars, agentVars, facadeVars, consumerVars, pairVars>>

-----------------------------------------------------------------------------
(* Anthropic adapter: backend events                                       *)
(*                                                                         *)
(* Each event has a type; content_block_delta carries delta_type and the   *)
(* field of that delta, content_block_start carries block_type and, for a  *)
(* tool_use block, id and name; message_delta carries stop_reason.         *)

TextDelta(text) ==
  [type |-> "content_block_delta", delta_type |-> "text_delta", text |-> text]
ThinkingDelta(thinking) ==
  [type |-> "content_block_delta", delta_type |-> "thinking_delta", thinking |-> thinking]
InputJsonDelta(partial_json) ==
  [type |-> "content_block_delta", delta_type |-> "input_json_delta",
   partial_json |-> partial_json]
ToolUseStart(id, name) ==
  [type |-> "content_block_start", block_type |-> "tool_use", id |-> id, name |-> name]
TextStart == [type |-> "content_block_start", block_type |-> "text"]
BlockStop == [type |-> "content_block_stop"]
MessageDelta(stop_reason) == [type |-> "message_delta", stop_reason |-> stop_reason]
MessageStop == [type |-> "message_stop"]

ANEvents ==
  { TextDelta("a"), TextDelta("b"), ThinkingDelta("t"), ThinkingDelta("u"),
    ThinkingDelta(""),
    ToolUseStart("toolu_1", "get"), ToolUseStart("toolu_2", "put"), TextStart,
    InputJsonDelta(<<"{", "\"a\"", ":">>), InputJsonDelta(<<"1", "}">>),
    InputJsonDelta(<<"{">>), InputJsonDelta(<<>>),
    BlockStop, MessageDelta(Some("tool_use")), MessageDelta(None), MessageStop }

-----------------------------------------------------------------------------
(* Anthropic adapter: generateStream *)

IsDelta(event, delta_type) ==
  event.type = "content_block_delta" /\ event.delta_type = delta_type

IsToolUseStart(event) ==
  event.type = "content_block_start" /\ event.block_type = "tool_use"

\* currentToolCall.inputJSON += event.delta.partial_json
AppendInputJSON(existing, fragment) == existing \o fragment

\* parsedArgs at content_block_stop: JSON.parse(inputJSON || "{}"), {} when it throws.
ANParsedArgs(inputJSON) ==
  LET text == IF inputJSON # <<>> THEN inputJSON ELSE <<"{", "}">>
  IN  IF JSONParse(text).ok THEN JSONParse(text).value ELSE EmptyObject

\* The ToolCall pushed at content_block_stop.
ANBuildToolCall(current) ==
  ToolCall(current.id, "function", current.name, ANParsedArgs(current.inputJSON))

\* The chunk yielded at message_stop.
ANFinalChunk(accumulated, finish) ==
  Chunk(None, None, IF Len(accumulated) > 0 THEN Some(accumulated) ELSE None, TRUE,
        IF TruthyStr(finish) THEN finish ELSE Some("end_turn"))

\* Mutant: nothing is yielded before message_stop.
ANYieldAtStopOnly(event, accumulated, finish) ==
  IF event.type = "message_stop" THEN <<ANFinalChunk(accumulated, finish)>> ELSE <<>>

\* The chunks one event makes the generator yield (none or one).
ANYield(event, accumulated, finish) ==
  IF IsDelta(event, "text_delta")
    THEN <<Chunk(Some(event.text), None, None, FALSE, None)>>
  ELSE IF IsDelta(event, "thinking_delta")
    THEN IF event.thinking # ""
         THEN <<Chunk(None, Some(event.thinking), None, FALSE, None)>>
         ELSE <<>>
  ELSE IF event.type = "message_stop"
    THEN <<ANFinalChunk(accumulated, finish)>>
  ELSE <<>>

\* Mutant: content_block_stop leaves the block open.
ANCurrentToolCallStaysOpen(event, current) ==
  IF IsDelta(event, "text_delta") \/ IsDelta(event, "thinking_delta") THEN current
  ELSE IF IsToolUseStart(event)
    THEN Some([id |-> event.id, name |-> event.name, inputJSON |-> <<>>])
  ELSE IF IsDelta(event, "input_json_delta")
    THEN IF current # None
         THEN Some([current[1] EXCEPT
                      !.inputJSON = AppendInputJSON(@, event.partial_json)])
         ELSE current
  ELSE current

\* currentToolCall after one event.
ANCurrentToolCall(event, current) ==
  IF IsDelta(event, "text_delta") \/ IsDelta(event, "thinking_delta") THEN current
  ELSE IF IsToolUseStart(event)
    THEN Some([id |-> event.id, name |-> event.name, inputJSON |-> <<>>])
  ELSE IF IsDelta(event, "input_json_delta")
    THEN IF current # None
         THEN Some([current[1] EXCEPT
                      !.inputJSON = AppendInputJSON(@, event.partial_json)])
         ELSE current
  ELSE IF event.type = "content_block_stop" THEN None
  ELSE current

\* accumulatedToolCalls after one event.
ANAccumulated(event, current, accumulated) ==
  IF event.type = "content_block_stop" /\ current # None
  THEN Append(accumulated, ANBuildToolCall(current[1]))
  ELSE accumulated

\* finishReason after one event.
ANFinishReason(event, finish) ==
  IF event.type = "message_delta" /\ TruthyStr(event.stop_reason)
  THEN event.stop_reason ELSE finish

\* One iteration of `for await (const event of stream)`.
ANStep(event) ==
  /\ provider = "anthropic"
  /\ pcStream = "running"
  /\ Len(events) < MaxEvents
  /\ events' = Append(events, event)
  /\ chunkCount' = chunkCount + 1
  /\ fullContent' = IF IsDelta(event, "text_delta")
                    THEN fullContent \o event.text ELSE fullContent
  /\ fullThinking' = IF IsDelta(event, "thinking_delta") /\ event.thinking # ""
                     THEN fullThinking \o event.thinking ELSE fullThinking
  /\ currentToolCall' = ANCurrentToolCall(event, currentToolCall)
  /\ accumulatedToolCalls' = ANAccumulated(event, currentToolCall, accumulatedToolCalls)
  /\ finishReason' = ANFinishReason(event, finishReason)
  /\ yielded' = yielded \o ANYield(event, accumulatedToolCalls, finishReason)
  /\ UNCHANGED <<provider, pcStream, toolCallAcc, finalToolCalls, finalFinishReason>>
  /\ UNCHANGED <<convVars, agentVars, facadeVars, consumerVars, pairVars>>

ANReceive == \E event \in ANEvents : ANStep(event)

-----------------------------------------------------------------------------
(* Specification of one generateStream call *)

\* The generator as it enters its loop.
StreamAtLoopEntry ==
  /\ pcStream = "running"
  /\ events = <<>>
  /\ yielded = <<>>
  /\ toolCallAcc = <<>>
  /\ finalToolCalls = None
  /\ finalFinishReason = None
  /\ accumulatedToolCalls = <<>>
  /\ currentToolCall = None
  /\ finishReason = None
  /\ fullContent = ""
  /\ fullThinking = ""
  /\ chunkCount = 0

\* No generateStream call.
StreamIdle ==
  /\ provider = "none"
  /\ pcStream = "idle"
  /\ events = <<>>
  /\ yielded = <<>>
  /\ toolCallAcc = <<>>
  /\ finalToolCalls = None
  /\ finalFinishReason = None
  /\ accumulatedToolCalls = <<>>
  /\ currentToolCall = None
  /\ finishReason = None
  /\ fullContent = ""
  /\ fullThinking = ""
  /\ chunkCount = 0

\* No prepareRequest call.
ConvIdle ==
  /\ convProvider = "none"
  /\ inputMessages = <<>>
  /\ originalMessages = <<>>
  /\ toolsInput = None
  /\ pcConv = "idle"
  /\ cursor = 0
  /\ systemPrompt = None
  /\ apiMessages = <<>>
  /\ payloads = <<>>

\* No Agent.
AgentIdle ==
  /\ messages = <<>>
  /\ maxSteps = 0
  /\ runs = <<>>
  /\ removed = 0
  /\ agentSystemPrompt = ""
  /\ lastCall = "none"
  /\ addCalls = 0

\* No LLMClient.
FacadeIdle ==
  /\ facadeArgs = <<>>
  /\ pcFacade = "none"
  /\ llmClient = None
  /\ adapters = <<>>
  /\ thrown = None
  /\ probes = <<>>
  /\ chunksRead = 0
  /\ connected = None
  /\ attempts = 0

\* No generator handed out.
ConsumerIdle ==
  /\ consumer = "none"
  /\ backend = <<>>
  /\ pcConsumer = "idle"
  /\ received = <<>>
  /\ caught = None
  /\ streamError = None
  /\ callArgs = None
  /\ adapterArgs = None
  /\ readAtStop = 0

\* No pair of calls.
PairIdle ==
  /\ pairProvider = "none"
  /\ locals = <<>>
  /\ callEvents = <<>>
  /\ callYielded = <<>>
  /\ readOrder = <<>>

InitStream ==
  /\ provider \in {"openai", "anthropic"}
  /\ StreamAtLoopEntry
  /\ ConvIdle
  /\ AgentIdle
  /\ FacadeIdle
  /\ ConsumerIdle
  /\ PairIdle

NextStream == OAReceive \/ ANReceive \/ StreamEnd

SpecStream == InitStream /\ [][NextStream]_vars

-----------------------------------------------------------------------------
(* What a stream of backend events says, read off the event history        *)

Last(s) == s[Len(s)]

Range(s) == { s[i] : i \in 1..Len(s) }

RECURSIVE ConcatStr(_)
ConcatStr(ss) == IF ss = <<>> THEN "" ELSE Head(ss) \o ConcatStr(Tail(ss))

RECURSIVE ConcatSeq(_)
ConcatSeq(ss) == IF ss = <<>> THEN <<>> ELSE Head(ss) \o ConcatSeq(Tail(ss))

\* The positions of a set of naturals in increasing order.
RECURSIVE Ascending(_)
Ascending(S) ==
  IF S = {} THEN <<>>
  ELSE LET m == CHOOSE x \in S : \A y \in S : x <= y
       IN  <<m>> \o Ascending(S \ {m})

\* The tool-call list of a chunk, empty when the field is absent.
ToolCallsOf(chunk) == IF chunk.tool_calls = None THEN <<>> ELSE chunk.tool_calls[1]

\* OpenAI: every tool-call delta of the stream, in arrival order.
RECURSIVE OACallsIn(_)
OACallsIn(evs) ==
  IF evs = <<>> THEN <<>>
  ELSE LET d == DeltaOf(Head(evs))
       IN  (IF d # None /\ d[1].tool_calls # None THEN d[1].tool_calls[1] ELSE <<>>)
           \o OACallsIn(Tail(evs))

\* OpenAI: the distinct indices of the stream, in order of first arrival.
RECURSIVE FirstSeen(_, _)
FirstSeen(calls, seen) ==
  IF calls = <<>> THEN seen
  ELSE FirstSeen(Tail(calls),
                 IF IndexOf(Head(calls)) \in Range(seen) THEN seen
                 ELSE Append(seen, IndexOf(Head(calls))))

\* OpenAI: the deltas of one index, in arrival order.
CallsOfIndex(calls, k) == SelectSeq(calls, LAMBDA c : IndexOf(c) = k)

OANameFragments(calls, k) ==
  LET named == SelectSeq(CallsOfIndex(calls, k), LAMBDA c : c.name # None)
  IN  [i \in 1..Len(named) |-> named[i].name[1]]

OAArgumentFragments(calls, k) ==
  LET with == SelectSeq(CallsOfIndex(calls, k), LAMBDA c : c.arguments # None)
  IN  [i \in 1..Len(with) |-> with[i].arguments[1]]

\* OpenAI: the identifier the backend sent for an index ("" when it sent none).
OASentId(calls, k) ==
  LET with == SelectSeq(CallsOfIndex(calls, k), LAMBDA c : TruthyStr(c.id))
  IN  IF with = <<>> THEN "" ELSE Last(with).id[1]

\* Anthropic: evs[p] opens a tool_use block that evs[q] closes.
IsCompletedBlock(evs, p, q) ==
  /\ IsToolUseStart(evs[p])
  /\ q > p
  /\ evs[q].type = "content_block_stop"
  /\ \A r \in (p + 1)..(q - 1) :
        evs[r].type # "content_block_stop" /\ ~IsToolUseStart(evs[r])

\* Anthropic: the completed tool_use blocks <<p, q>> of the stream, in order.
CompletedBlocks(evs) ==
  LET starts == { p \in 1..Len(evs) : \E q \in 1..Len(evs) : IsCompletedBlock(evs, p, q) }
      order == Ascending(starts)
  IN  [i \in 1..Len(order) |->
         <<order[i], CHOOSE q \in 1..Len(evs) : IsCompletedBlock(evs, order[i], q)>>]

ANArgumentFragments(evs, block) ==
  LET inside == SelectSeq(SubSeq(evs, block[1] + 1, block[2] - 1),
                          LAMBDA e : IsDelta(e, "input_json_delta"))
  IN  [i \in 1..Len(inside) |-> inside[i].partial_json]

\* What the stream holds for each tool call: the identifier sent, the name fragments
\* and the argument fragments, per distinct index (OpenAI) or completed block (Anthropic).
StreamToolCalls(evs) ==
  IF provider = "openai"
  THEN LET calls == OACallsIn(evs)
           order == FirstSeen(calls, <<>>)
       IN  [i \in 1..Len(order) |->
              [id |-> OASentId(calls, order[i]),
               nameFragments |-> OANameFragments(calls, order[i]),
               argumentFragments |-> OAArgumentFragments(calls, order[i])]]
  ELSE LET blocks == CompletedBlocks(evs)
       IN  [i \in 1..Len(blocks) |->
              [id |-> evs[blocks[i][1]].id,
               nameFragments |-> <<evs[blocks[i][1]].name>>,
               argumentFragments |-> ANArgumentFragments(evs, blocks[i])]]

\* The event just consumed carried the turn's terminal signal: a finish_reason
\* (OpenAI) or message_stop (Anthropic).
TerminalJustSeen ==
  /\ events # <<>>
  /\ IF provider = "openai" THEN FinishReasonOf(Last(events)) # None
     ELSE Last(events).type = "message_stop"

-----------------------------------------------------------------------------
(* Claims about generateStream *)

\* C1: every chunk yielded with done=false has an absent or empty tool_calls list.
NoEarlyToolCalls ==
  \A i \in 1..Len(yielded) : ~yielded[i].done => ToolCallsOf(yielded[i]) = <<>>

\* C2: a chunk with done=true is the last chunk of its call.
DoneIsFinal ==
  \A i \in 1..Len(yielded) : yielded[i].done => i = Len(yielded)

MalformedJsonDegrades ==
  TerminalJustSeen =>
    /\ yielded # <<>>
    /\ Last(yielded).done
    /\ LET actual == ToolCallsOf(Last(yielded))
           sent == StreamToolCalls(events)
       IN  /\ Len(actual) = Len(sent)
           /\ \A i \in 1..Len(sent) :
                LET text == ConcatSeq(sent[i].argumentFragments)
                IN  IF JSONParse(text).ok
                    THEN actual[i].function.arguments = JSONParse(text).value
                    ELSE /\ actual[i].function.arguments = EmptyObject
                         /\ actual[i].id = sent[i].id
                         /\ actual[i].function.name = ConcatStr(sent[i].nameFragments)

\* C4 witness: an Anthropic turn ended whose tool_use block carried the unparseable
\* argument text "{"; the terminal chunk holds it with arguments {}.
MalformedJsonDegradesWitness ==
  /\ provider = "anthropic"
  /\ TerminalJustSeen
  /\ Len(StreamToolCalls(events)) = 1
  /\ ConcatSeq(StreamToolCalls(events)[1].argumentFragments) = <<"{">>
  /\ ToolCallsOf(Last(yielded)) = <<ToolCall("toolu_1", "function", "get", EmptyObject)>>

-----------------------------------------------------------------------------
(* Internal messages (Message)                                             *)
(*                                                                         *)
(* The content of a message is a record of one shape for every role:       *)
(* a string, an array of content blocks, or absent.                        *)

StringContent(text) == [kind |-> "string", text |-> text, blocks |-> <<>>]
ArrayContent(blocks) == [kind |-> "array", text |-> "", blocks |-> blocks]
AbsentContent == [kind |-> "absent", text |-> "", blocks |-> <<>>]

\* Mutant: no content counts as present.
NeverTruthy(c) == FALSE

\* JavaScript truthiness of a content: absent and "" are falsy, arrays are truthy.
TruthyContent(c) == c.kind = "array" \/ (c.kind = "string" /\ c.text # "")

SystemMessage(text) == [role |-> "system", content |-> StringContent(text)]
UserMessage(content) == [role |-> "user", content |-> content]
AssistantMessage(content, thinking, tool_calls) ==
  [role |-> "assistant", content |-> content, thinking |-> thinking,
   tool_calls |-> tool_calls]
ToolMessage(text, tool_call_id, tool_name) ==
  [role |-> "tool", content |-> StringContent(text), tool_call_id |-> tool_call_id,
   tool_name |-> tool_name]

TextBlock(text) == [type |-> "text", text |-> text]

Tool(name, description, parameters) ==
  [name |-> name, description |-> description, parameters |-> parameters]

-----------------------------------------------------------------------------
(* Bounds of the conversion model *)

\* Length of the message list handed to prepareRequest.
MaxMessages == 3

\* Calls of prepareRequest on the same message list.
MaxPrepareCalls == 2

\* The messages a list is made of.
MessagePool ==
  { SystemMessage("S"),
    UserMessage(StringContent("hi")),
    UserMessage(ArrayContent(<<TextBlock("hi")>>)),
    AssistantMessage(StringContent("ok"), None, None),
    AssistantMessage(AbsentContent, Some("t"),
                     Some(<<ToolCall("toolu_1", "function", "get",
                                     [obj |-> <<[num |-> 1]>>])>>)),
    AssistantMessage(AbsentContent, None, Some(<<>>)),
    ToolMessage("r1", "toolu_1", None),
    ToolMessage("r2", "toolu_2", Some("put")) }

MessageLists == UNION { [1..n -> MessagePool] : n \in 0..MaxMessages }

ToolsInputs == { None, Some(<<>>), Some(<<Tool("get", "d", EmptyObject)>>) }

-----------------------------------------------------------------------------
(* JSON.stringify on tool arguments *)

RECURSIVE DigitsOf(_)
DigitsOf(n) == IF n < 10 THEN <<"1">> ELSE DigitsOf(n \div 10) \o <<"1">>

RECURSIVE JSONStringify(_)
JSONStringify(v) ==
  IF "num" \in DOMAIN v THEN DigitsOf(v.num)
  ELSE IF "str" \in DOMAIN v THEN <<"\"a\"">>
  ELSE IF v.obj = <<>> THEN <<"{", "}">>
  ELSE <<"{", "\"a\"", ":">> \o JSONStringify(v.obj[1]) \o <<"}">>

-----------------------------------------------------------------------------
(* OpenAI adapter: convertMessages and prepareRequest *)

\* msg.tool_calls.map(...)
OAWireToolCalls(tool_calls) ==
  [i \in 1..Len(tool_calls) |->
     [id |-> tool_calls[i].id, type |-> "function",
      function |-> [name |-> tool_calls[i].function.name,
                    arguments |-> JSONStringify(tool_calls[i].function.arguments)]]]

\* Mutant: a tool result is sent as a user message without its tool_call_id.
OAConvertToolAsUser(msg) ==
  [role |-> IF msg.role = "tool" THEN "user" ELSE msg.role, content |-> msg.content]

\* The provider message pushed for one internal message.
OAConvertMessage(msg) ==
  IF msg.role = "system" THEN [role |-> "system", content |-> msg.content]
  ELSE IF msg.role = "user" THEN [role |-> "user", content |-> msg.content]
  ELSE IF msg.role = "assistant" THEN
    [role |-> "assistant",
     content |-> IF TruthyContent(msg.content) THEN msg.content ELSE AbsentContent,
     tool_calls |-> IF msg.tool_calls # None /\ Len(msg.tool_calls[1]) > 0
                    THEN Some(OAWireToolCalls(msg.tool_calls[1])) ELSE None,
     reasoning_details |-> IF TruthyStr(msg.thinking)
                           THEN Some(<<[text |-> msg.thinking[1]]>>) ELSE None]
  ELSE
    [role |-> "tool", content |-> msg.content, tool_call_id |-> msg.tool_call_id,
     name |-> IF TruthyStr(msg.tool_name) THEN msg.tool_name ELSE None]

\* One iteration of `for (const msg of messages)` in OpenAIClient.convertMessages.
OAConvertStep ==
  /\ convProvider = "openai"
  /\ pcConv = "loop"
  /\ cursor <= Len(inputMessages)
  /\ apiMessages' = Append(apiMessages, OAConvertMessage(inputMessages[cursor]))
  /\ cursor' = cursor + 1
  /\ UNCHANGED <<convProvider, inputMessages, originalMessages, toolsInput, pcConv,
                 systemPrompt, payloads>>
  /\ UNCHANGED <<streamVars, agentVars, facadeVars, consumerVars, pairVars>>

\* return { apiMessages, tools: tools ?? null }
OAPayload(api, tools) == [apiMessages |-> api, tools |-> tools]

-----------------------------------------------------------------------------
(* Anthropic adapter: convertMessages and prepareRequest                   *)
(*                                                                         *)
(* A provider message is [role, content, shares].  For a user message with *)
(* array content the code pushes the caller's array itself, not a copy:    *)
(* shares is the index of the input message whose content array the        *)
(* provider message holds (0 for a string or an array of its own), and a   *)
(* push on that array is a push on the input message's content.            *)

\* input: toolCall.function.arguments || {}
InputOf(arguments) ==
  IF arguments = [num |-> 0] \/ arguments = [str |-> ""] THEN EmptyObject ELSE arguments

\* The contentBlocks of an assistant message.
ANAssistantBlocks(msg) ==
  (IF TruthyStr(msg.thinking)
   THEN <<[type |-> "thinking", thinking |-> msg.thinking[1], signature |-> ""]>>
   ELSE <<>>)
  \o (IF TruthyContent(msg.content) THEN <<TextBlock(msg.content.text)>> ELSE <<>>)
  \o (IF msg.tool_calls # None
      THEN [i \in 1..Len(msg.tool_calls[1]) |->
              [type |-> "tool_use", id |-> msg.tool_calls[1][i].id,
               name |-> msg.tool_calls[1][i].function.name,
               input |-> InputOf(msg.tool_calls[1][i].function.arguments)]]
      ELSE <<>>)

\* Mutant: the tool_result block does not name the tool call it answers.
ToolResultBlockWithoutId(msg) ==
  [type |-> "tool_result", tool_use_id |-> "", content |-> msg.content.text]

ToolResultBlock(msg) ==
  [type |-> "tool_result", tool_use_id |-> msg.tool_call_id, content |-> msg.content.text]

\* lastMsg && lastMsg.role === "user" && Array.isArray(lastMsg.content)
MergesIntoLast(api) ==
  api # <<>> /\ api[Len(api)].role = "user" /\ api[Len(api)].content.kind = "array"

PushBlock(content, block) == [content EXCEPT !.blocks = Append(@, block)]

\* apiMessages after one message of the loop.
ANApiAfter(api, msg, at) ==
  IF msg.role = "system" THEN api
  ELSE IF msg.role = "user" THEN
    Append(api, [role |-> "user", content |-> msg.content,
                 shares |-> IF msg.content.kind = "array" THEN at ELSE 0])
  ELSE IF msg.role = "assistant" THEN
    IF ANAssistantBlocks(msg) # <<>>
    THEN Append(api, [role |-> "assistant",
                      content |-> ArrayContent(ANAssistantBlocks(msg)), shares |-> 0])
    ELSE api
  ELSE
    IF MergesIntoLast(api)
    THEN [api EXCEPT ![Len(api)].content = PushBlock(@, ToolResultBlock(msg))]
    ELSE Append(api, [role |-> "user",
                      content |-> ArrayContent(<<ToolResultBlock(msg)>>), shares |-> 0])

\* The caller's messages after one message of the loop: the push of a tool result
\* onto a provider message that holds an input message's array lands in that array.
ANInputAfter(input, api, msg) ==
  IF msg.role = "tool" /\ MergesIntoLast(api) /\ api[Len(api)].shares # 0
  THEN [input EXCEPT ![api[Len(api)].shares].content = PushBlock(@, ToolResultBlock(msg))]
  ELSE input

\* One iteration of `for (const msg of messages)` in AnthropicClient.convertMessages.
ANConvertStep ==
  /\ convProvider = "anthropic"
  /\ pcConv = "loop"
  /\ cursor <= Len(inputMessages)
  /\ LET msg == inputMessages[cursor]
     IN  /\ systemPrompt' = IF msg.role = "system" THEN Some(msg.content.text)
                            ELSE systemPrompt
         /\ apiMessages' = ANApiAfter(apiMessages, msg, cursor)
         /\ inputMessages' = ANInputAfter(inputMessages, apiMessages, msg)
  /\ cursor' = cursor + 1
  /\ UNCHANGED <<convProvider, originalMessages, toolsInput, pcConv, payloads>>
  /\ UNCHANGED <<streamVars, agentVars, facadeVars, consumerVars, pairVars>>

\* convertTools
ANConvertTools(tools) ==
  [i \in 1..Len(tools) |->
     [name |-> tools[i].name, description |-> tools[i].description,
      input_schema |-> tools[i].parameters]]

\* Mutant: the request carries no system field.
ANPayloadWithoutSystem(system, api, tools) ==
  [system |-> None,
   messages |-> [i \in 1..Len(api) |-> [role |-> api[i].role, content |-> api[i].content]],
   tools |-> None]

\* return { system, messages, tools }, as the request carries it.
ANPayload(system, api, tools) ==
  [system |-> system,
   messages |-> [i \in 1..Len(api) |-> [role |-> api[i].role, content |-> api[i].content]],
   tools |-> IF tools # None /\ Len(tools[1]) > 0
             THEN Some(ANConvertTools(tools[1])) ELSE None]

-----------------------------------------------------------------------------
(* prepareRequest, either adapter *)

\* prepareRequest is called: convertMessages starts with empty results.
PrepareRequest ==
  /\ pcConv = "idle"
  /\ convProvider \in {"openai", "anthropic"}
  /\ Len(payloads) < MaxPrepareCalls
  /\ pcConv' = "loop"
  /\ cursor' = 1
  /\ systemPrompt' = None
  /\ apiMessages' = <<>>
  /\ UNCHANGED <<convProvider, inputMessages, originalMessages, toolsInput, payloads>>
  /\ UNCHANGED <<streamVars, agentVars, facadeVars, consumerVars, pairVars>>

\* The loop is over: convertMessages returns and prepareRequest returns its payload.
PrepareReturn ==
  /\ pcConv = "loop"
  /\ cursor > Len(inputMessages)
  /\ pcConv' = "idle"
  /\ payloads' = Append(payloads,
                        IF convProvider = "openai"
                        THEN OAPayload(apiMessages, toolsInput)
                        ELSE ANPayload(systemPrompt, apiMessages, toolsInput))
  /\ UNCHANGED <<convProvider, inputMessages, originalMessages, toolsInput, cursor,
                 systemPrompt, apiMessages>>
  /\ UNCHANGED <<streamVars, agentVars, facadeVars, consumerVars, pairVars>>

InitConv ==
  /\ convProvider \in {"openai", "anthropic"}
  /\ inputMessages \in MessageLists
  /\ originalMessages = inputMessages
  /\ toolsInput \in ToolsInputs
  /\ pcConv = "idle"
  /\ cursor = 0
  /\ systemPrompt = None
  /\ apiMessages = <<>>
  /\ payloads = <<>>
  /\ StreamIdle
  /\ AgentIdle
  /\ FacadeIdle
  /\ ConsumerIdle
  /\ PairIdle

NextConv == PrepareRequest \/ OAConvertStep \/ ANConvertStep \/ PrepareReturn

SpecConv == InitConv /\ [][NextConv]_vars

-----------------------------------------------------------------------------
(* Claims about prepareRequest and convertMessages *)

\* C5: prepareRequest leaves the caller's messages and their content arrays as they
\* were, and every call on the same list returns the same payload.
PrepareRequestIsPure ==
  /\ inputMessages = originalMessages
  /\ \A i, j \in 1..Len(payloads) : payloads[i] = payloads[j]

\* C6: when the Anthropic conversion reaches a tool message and the provider message
\* before it is a user turn, the tool_result block goes into that same user turn and
\* no new provider message is created.
ToolResultPairing ==
  [][ ( /\ convProvider = "anthropic"
        /\ pcConv = "loop"
        /\ cursor <= Len(inputMessages)
        /\ inputMessages[cursor].role = "tool"
        /\ apiMessages # <<>>
        /\ Last(apiMessages).role = "user"
        /\ cursor' = cursor + 1 )
      => ( /\ Len(apiMessages') = Len(apiMessages)
           /\ Last(apiMessages').content.kind = "array"
           /\ Last(Last(apiMessages').content.blocks)
                = ToolResultBlock(inputMessages[cursor]) ) ]_vars

-----------------------------------------------------------------------------
(* Agent                                                                   *)
(*                                                                         *)
(* runs holds one record per call of run(), in call order.  A run is       *)
(* "awaiting" while it is suspended in `await llmClient.generate(...)` and *)
(* "settled" once its promise is resolved or rejected.  Nothing in the     *)
(* class keeps a method from being called while a run is suspended:        *)
(* addUserMessage, clearHistoryKeepSystem and a further run() may all run  *)
(* between the issue of a model call and its settlement, and they act on   *)
(* the one history this.messages.  What generate() does is the             *)
(* environment's choice: it returns one of LLMResponses or throws one of   *)
(* Errors, and the pending calls of different runs settle in any order.    *)

\* Largest maxSteps an Agent is constructed with.
MaxSteps == 2

\* Most calls of addUserMessage in one behaviour.
MaxUserMessages == 2

\* Most calls of run() in one behaviour.
MaxRuns == 2

BasePrompts == { "S", "Current Workspace: /w" }
WorkspaceDirs == { "./workspace" }
UserInputs == { "hi" }
Errors == { "ECONNRESET", "401 Unauthorized" }

\* basePrompt.includes("Current Workspace")
IncludesCurrentWorkspace(basePrompt) == basePrompt = "Current Workspace: /w"

\* buildSystemPrompt.  The source puts the directory between two backquote
\* characters, which a string of this module cannot hold; they are left out.
buildSystemPrompt(basePrompt, workspaceDir) ==
  IF IncludesCurrentWorkspace(basePrompt) THEN basePrompt
  ELSE basePrompt \o "\n\n## Current Workspace\nYou are currently working in: "
         \o workspaceDir
         \o "\nAll relative paths will be resolved relative to this directory."

\* The fields of an LLMResponse that run() reads.
LLMResponse(content, thinking, tool_calls) ==
  [content |-> content, thinking |-> thinking, tool_calls |-> tool_calls]

\* What generate() may return: tool_calls absent (undefined or null), an empty list,
\* two calls.
LLMResponses ==
  { LLMResponse("done", None, None),
    LLMResponse("fin", None, Some(<<>>)),
    LLMResponse("", Some("t"),
                Some(<<ToolCall("call_1", "function", "get", EmptyObject),
                       ToolCall("call_2", "function", "put", [obj |-> <<[num |-> 1]>>])>>)) }

Returned(response) == [error |-> None, response |-> Some(response)]
Threw(error) == [error |-> Some(error), response |-> None]

Resolved(value) == [kind |-> "resolved", value |-> value]
Rejected(error) == [kind |-> "rejected", value |-> error]
Pending == [kind |-> "pending", value |-> ""]

\* this.messages.push({ role: "assistant", content, thinking })
AssistantTurn(response) ==
  [role |-> "assistant", content |-> StringContent(response.content),
   thinking |-> response.thinking]

\* !response.tool_calls : true for undefined and null, false for every array.
TaskComplete(response) == response.tool_calls = None

\* `Task couldn't be completed after ${this.maxSteps} steps.`
CeilingMessage(n) == "Task couldn't be completed after " \o ToString(n) \o " steps."

\* Mutant: the loop runs while step <= maxSteps.
LoopContinuesInclusive(s) == s <= maxSteps

\* step < this.maxSteps
LoopContinues(s) == s < maxSteps

\* The tools argument of this.llmClient.generate(this.messages): there is none.
GenerateTools == None

\* A call of run() that has not reached the head of its loop yet: step is the loop
\* variable, modelCalls the history passed to each generate() in order,
\* modelCallTools the tools argument of each of those calls (None when not passed),
\* modelResults how those calls settled, outcome how the promise of run() settled.
NewRun ==
  [step |-> 0, pc |-> "awaiting", outcome |-> Pending,
   modelCalls |-> <<>>, modelCallTools |-> <<>>, modelResults |-> <<>>]

\* The head of the for loop of the run r with the counter at s and the history msgs:
\* either the next generate() is issued or the loop is left and run() resolves.
LoopHead(r, s, msgs) ==
  IF LoopContinues(s)
  THEN [r EXCEPT !.step = s,
                 !.pc = "awaiting",
                 !.modelCalls = Append(@, msgs),
                 !.modelCallTools = Append(@, GenerateTools),
                 !.outcome = Pending]
  ELSE [r EXCEPT !.step = s,
                 !.pc = "settled",
                 !.outcome = Resolved(CeilingMessage(maxSteps))]

\* Mutant: the user message is inserted right after the system message.
addUserMessageInsertsSecond ==
  /\ addCalls < MaxUserMessages
  /\ \E content \in UserInputs :
       messages' = <<messages[1], UserMessage(StringContent(content))>> \o Tail(messages)
  /\ addCalls' = addCalls + 1
  /\ lastCall' = "addUserMessage"
  /\ UNCHANGED <<maxSteps, runs, removed, agentSystemPrompt>>
  /\ UNCHANGED <<streamVars, convVars, facadeVars, consumerVars, pairVars>>

\* addUserMessage(content), whether or not a run is suspended.
addUserMessage ==
  /\ addCalls < MaxUserMessages
  /\ \E content \in UserInputs :
       messages' = Append(messages, UserMessage(StringContent(content)))
  /\ addCalls' = addCalls + 1
  /\ lastCall' = "addUserMessage"
  /\ UNCHANGED <<maxSteps, runs, removed, agentSystemPrompt>>
  /\ UNCHANGED <<streamVars, convVars, facadeVars, consumerVars, pairVars>>

\* Mutant: the count includes the system message that is kept.
RemovedCountsAll(msgs) == Len(msgs)

\* const removed = this.messages.length - 1
RemovedCount(msgs) == Len(msgs) - 1

\* Mutant: the newest message is kept instead of the first.
KeepsLast(msgs) == <<msgs[Len(msgs)]>>

\* [this.messages[0]]
KeepSystem(msgs) == <<msgs[1]>>

\* clearHistoryKeepSystem(), whether or not a run is suspended: this.messages is
\* replaced, and a suspended run pushes onto the new array when it resumes.
clearHistoryKeepSystem ==
  /\ removed' = RemovedCount(messages)
  /\ messages' = KeepSystem(messages)
  /\ lastCall' = "clearHistoryKeepSystem"
  /\ UNCHANGED <<maxSteps, runs, agentSystemPrompt, addCalls>>
  /\ UNCHANGED <<streamVars, convVars, facadeVars, consumerVars, pairVars>>

\* run() is called, whether or not an earlier run is suspended: the loop starts with
\* step = 0 and runs up to its first await.
run ==
  /\ Len(runs) < MaxRuns
  /\ runs' = Append(runs, LoopHead(NewRun, 0, messages))
  /\ lastCall' = "run"
  /\ UNCHANGED <<messages, maxSteps, removed, agentSystemPrompt, addCalls>>
  /\ UNCHANGED <<streamVars, convVars, facadeVars, consumerVars, pairVars>>

\* Mutant: the assistant message takes the place of the newest message of the history.
GenerateReturnsOverwrites ==
  /\ \E i \in 1..Len(runs), response \in LLMResponses :
       LET pushed == IF Len(messages) > 1
                     THEN [messages EXCEPT ![Len(messages)] = AssistantTurn(response)]
                     ELSE Append(messages, AssistantTurn(response))
           r == [runs[i] EXCEPT !.modelResults = Append(@, Returned(response))]
       IN  /\ runs[i].pc = "awaiting"
           /\ messages' = pushed
           /\ runs' = [runs EXCEPT ![i] =
                         IF TaskComplete(response)
                         THEN [r EXCEPT !.pc = "settled",
                                        !.outcome = Resolved(response.content)]
                         ELSE LoopHead(r, r.step + 1, pushed)]
  /\ lastCall' = "run"
  /\ UNCHANGED <<maxSteps, removed, agentSystemPrompt, addCalls>>
  /\ UNCHANGED <<streamVars, convVars, facadeVars, consumerVars, pairVars>>

\* The generate() of a suspended run returns: the run resumes, pushes the assistant
\* message onto this.messages as it is now, then either returns the text or goes
\* round the loop.
GenerateReturns ==
  /\ \E i \in 1..Len(runs), response \in LLMResponses :
       LET pushed == Append(messages, AssistantTurn(response))
           r == [runs[i] EXCEPT !.modelResults = Append(@, Returned(response))]
       IN  /\ runs[i].pc = "awaiting"
           /\ messages' = pushed
           /\ runs' = [runs EXCEPT ![i] =
                         IF TaskComplete(response)
                         THEN [r EXCEPT !.pc = "settled",
                                        !.outcome = Resolved(response.content)]
                         ELSE LoopHead(r, r.step + 1, pushed)]
  /\ lastCall' = "run"
  /\ UNCHANGED <<maxSteps, removed, agentSystemPrompt, addCalls>>
  /\ UNCHANGED <<streamVars, convVars, facadeVars, consumerVars, pairVars>>

\* Mutant: the failed step is recorded in the history as an empty assistant turn.
GenerateThrowsAndAppends ==
  /\ \E i \in 1..Len(runs), error \in Errors :
       /\ runs[i].pc = "awaiting"
       /\ runs' = [runs EXCEPT ![i] =
                     [runs[i] EXCEPT !.modelResults = Append(@, Threw(error)),
                                     !.pc = "settled",
                                     !.outcome = Rejected(error)]]
  /\ messages' = Append(messages, AssistantTurn(LLMResponse("", None, None)))
  /\ lastCall' = "run"
  /\ UNCHANGED <<maxSteps, removed, agentSystemPrompt, addCalls>>
  /\ UNCHANGED <<streamVars, convVars, facadeVars, consumerVars, pairVars>>

\* The generate() of a suspended run throws: the finally block stops the spinner and
\* the error leaves run().
GenerateThrows ==
  /\ \E i \in 1..Len(runs), error \in Errors :
       /\ runs[i].pc = "awaiting"
       /\ runs' = [runs EXCEPT ![i] =
                     [runs[i] EXCEPT !.modelResults = Append(@, Threw(error)),
                                     !.pc = "settled",
                                     !.outcome = Rejected(error)]]
  /\ lastCall' = "run"
  /\ UNCHANGED <<messages, maxSteps, removed, agentSystemPrompt, addCalls>>
  /\ UNCHANGED <<streamVars, convVars, facadeVars, consumerVars, pairVars>>

\* new Agent(llmClient, systemPrompt, maxSteps, workspaceDir)
InitAgent ==
  /\ maxSteps \in -1..MaxSteps
  /\ \E basePrompt \in BasePrompts, workspaceDir \in WorkspaceDirs :
       agentSystemPrompt = buildSystemPrompt(basePrompt, workspaceDir)
  /\ messages = <<SystemMessage(agentSystemPrompt)>>
  /\ runs = <<>>
  /\ removed = 0
  /\ lastCall = "constructor"
  /\ addCalls = 0
  /\ StreamIdle
  /\ ConvIdle
  /\ FacadeIdle
  /\ ConsumerIdle
  /\ PairIdle

NextAgent ==
  addUserMessage \/ clearHistoryKeepSystem \/ run \/ GenerateReturns \/ GenerateThrows

SpecAgent == InitAgent /\ [][NextAgent]_vars

\* The system prompt plays no part in the loop of run(): the specification with
\* fairness starts from the Agents built on the prompt without workspace information.
InitAgentFair ==
  /\ InitAgent
  /\ agentSystemPrompt = buildSystemPrompt("S", "./workspace")

\* Every model call terminates: an awaited generate() returns or throws.
SpecAgentFair ==
  InitAgentFair /\ [][NextAgent]_vars /\ WF_vars(GenerateReturns \/ GenerateThrows)

-----------------------------------------------------------------------------
(* Claims about Agent.run *)

\* The tool calls of a returned turn: none when the field is absent.
ToolCallsOfTurn(response) ==
  IF response.tool_calls = None THEN <<>> ELSE response.tool_calls[1]

\* This step settles a generate() call of the run i.
TurnSettled(i) ==
  /\ i <= Len(runs)
  /\ Len(runs') = Len(runs)
  /\ Len(runs'[i].modelResults) = Len(runs[i].modelResults) + 1

\* The generate() call of the run i settles in this step by returning a response.
TurnReturned(i) ==
  /\ TurnSettled(i)
  /\ Last(runs'[i].modelResults).response # None

\* The generate() call of the run i settles in this step by throwing.
TurnThrew(i) ==
  /\ TurnSettled(i)
  /\ Last(runs'[i].modelResults).error # None

\* The response returned to the run i in this step.
TurnOf(i) == Last(runs'[i].modelResults).response[1]

\* Every model call of the run i has returned a turn with at least one tool call.
ToolCallsInEveryTurn(i) ==
  \A k \in 1..Len(runs[i].modelResults) :
    /\ runs[i].modelResults[k].response # None
    /\ Len(ToolCallsOfTurn(runs[i].modelResults[k].response[1])) >= 1

\* C7: when a model call of a run returns a turn with no tool calls, the run appends
\* that assistant message to the history, issues no further model call and resolves
\* to the turn's text.
LoopSuccessTermination ==
  [][ \A i \in 1..MaxRuns :
        ( /\ TurnReturned(i)
          /\ ToolCallsOfTurn(TurnOf(i)) = <<>> )
        => ( /\ messages' = Append(messages, AssistantTurn(TurnOf(i)))
             /\ runs'[i].modelCalls = runs[i].modelCalls
             /\ runs'[i].pc = "settled"
             /\ runs'[i].outcome = Resolved(TurnOf(i).content) ) ]_vars

\* C8: with maxSteps = n >= 1 and at least one tool call in every turn, a run never
\* issues more than n model calls, and when it settles it has issued exactly n and
\* resolves to "Task couldn't be completed after n steps.".
StepCeiling ==
  \A i \in 1..Len(runs) :
    (maxSteps >= 1 /\ ToolCallsInEveryTurn(i))
      => /\ Len(runs[i].modelCalls) <= maxSteps
         /\ runs[i].pc = "settled"
              => /\ runs[i].outcome = Resolved(CeilingMessage(maxSteps))
                 /\ Len(runs[i].modelCalls) = maxSteps
                 /\ Len(runs[i].modelResults) = maxSteps

\* Two runs with maxSteps = 2 have both settled after two turns each that carried
\* tool calls, the second called while the first was suspended.
StepCeilingWitness ==
  /\ maxSteps = 2
  /\ Len(runs) = 2
  /\ \A i \in 1..2 :
       /\ runs[i].outcome = Resolved("Task couldn't be completed after 2 steps.")
       /\ Len(runs[i].modelResults) = 2
       /\ ToolCallsInEveryTurn(i)
  /\ runs[2].modelCalls[1] = runs[1].modelCalls[1]

\* C9: when a model call of a run throws, the run rejects with that error, issues no
\* further model call, and the failing step leaves the history as it is: no
\* assistant message is appended for it and what earlier steps appended stays.
ModelCallFailureIsFatal ==
  [][ \A i \in 1..MaxRuns :
        TurnThrew(i)
        => ( /\ runs'[i].outcome = Rejected(Last(runs'[i].modelResults).error[1])
             /\ runs'[i].pc = "settled"
             /\ runs'[i].modelCalls = runs[i].modelCalls
             /\ messages' = messages
             /\ messages = Last(runs[i].modelCalls)
                  => messages' = Last(runs'[i].modelCalls) ) ]_vars

\* A run has been rejected by a failure of its second model call, and the history is
\* the one passed to that call: what the run started from and the first turn.
ModelCallFailureWitness ==
  \E i \in 1..Len(runs) :
    /\ runs[i].outcome.kind = "rejected"
    /\ Len(runs[i].modelResults) = 2
    /\ runs[i].modelResults[2].error = Some(runs[i].outcome.value)
    /\ messages = runs[i].modelCalls[2]
    /\ Len(messages) = Len(runs[i].modelCalls[1]) + 1

\* C10: when a turn that carried tool calls is followed by a further model call, the
\* step that issues that call has put into the history, after the assistant message,
\* one tool message per tool call with the call's id, in emission order, and passes
\* that history to the call.
ToolResultJoinBarrier ==
  [][ \A i \in 1..MaxRuns :
        ( /\ TurnReturned(i)
          /\ ToolCallsOfTurn(TurnOf(i)) # <<>>
          /\ Len(runs'[i].modelCalls) = Len(runs[i].modelCalls) + 1 )
        => LET calls == ToolCallsOfTurn(TurnOf(i))
               now == Last(runs'[i].modelCalls)
           IN  /\ now = messages'
               /\ Len(now) = Len(messages) + 1 + Len(calls)
               /\ \A k \in 1..Len(calls) :
                    /\ now[Len(messages) + 1 + k].role = "tool"
                    /\ now[Len(messages) + 1 + k].tool_call_id = calls[k].id ]_vars

-----------------------------------------------------------------------------
(* Claims about the Agent's history *)

IsPrefix(s, t) == Len(s) <= Len(t) /\ \A i \in 1..Len(s) : t[i] = s[i]

\* C11: clearHistoryKeepSystem on a history of length N returns N-1 and leaves
\* exactly the system message of construction; called again with no step of the
\* Agent in between it returns 0 and leaves the history as it is.
ClearHistoryKeepsSystem ==
  [][ lastCall' = "clearHistoryKeepSystem"
      => ( /\ removed' = Len(messages) - 1
           /\ messages' = <<SystemMessage(agentSystemPrompt)>>
           /\ lastCall = "clearHistoryKeepSystem"
                => (removed' = 0 /\ messages' = messages) ) ]_vars

\* A clear called while a run is suspended has removed two messages.
ClearHistoryWitness ==
  /\ lastCall = "clearHistoryKeepSystem"
  /\ removed = 2
  /\ Len(messages) = 1
  /\ \E i \in 1..Len(runs) : runs[i].pc = "awaiting" /\ Len(Last(runs[i].modelCalls)) = 3

\* C12: the history is never empty, its first element is the system message created
\* by the constructor, and no other element has role system.
SystemMessageFirst ==
  /\ Len(messages) >= 1
  /\ messages[1] = SystemMessage(agentSystemPrompt)
  /\ \A i \in 2..Len(messages) : messages[i].role # "system"

\* A clear has removed the history a suspended run was called on, the run has pushed
\* its turn onto the new history, and a later run has failed.
SystemMessageFirstWitness ==
  /\ lastCall = "run"
  /\ removed >= 1
  /\ Len(runs) = 2
  /\ runs[1].modelCalls # <<>>
  /\ Len(runs[1].modelCalls[1]) >= 2
  /\ runs[1].outcome.kind = "resolved"
  /\ runs[2].outcome.kind = "rejected"
  /\ Len(messages) = 2
  /\ messages[2].role = "assistant"

\* C13: every step other than clearHistoryKeepSystem leaves the messages already in
\* the history where they are and only adds messages at the end.
HistoryAppendOnly ==
  [][ lastCall' # "clearHistoryKeepSystem" => IsPrefix(messages, messages') ]_vars

\* A user message has been added while a run was suspended, and the run has then
\* pushed its turn after it.
HistoryAppendOnlyWitness ==
  /\ lastCall = "run"
  /\ \E i \in 1..Len(runs) :
       /\ runs[i].outcome.kind = "resolved"
       /\ runs[i].modelCalls # <<>>
       /\ Len(messages) = Len(runs[i].modelCalls[1]) + 2
       /\ IsPrefix(runs[i].modelCalls[1], messages)
       /\ messages[Len(messages) - 1].role = "user"
       /\ messages[Len(messages)].role = "assistant"

-----------------------------------------------------------------------------
(* LLMClient: the facade over the two adapters                             *)
(*                                                                         *)
(* An endpoint (apiBase) is a sequence of characters, so that stripping    *)
(* its trailing slashes is computed.  What the adapter's generator does on *)
(* the first next() of checkConnection is the environment's choice: it     *)
(* yields a chunk, returns without a chunk, or throws.                     *)

\* Longest apiBase, in characters.
MaxApiBaseLen == 3

\* checkConnection calls on one LLMClient.
MaxProbes == 2

ApiBases == UNION { [1..n -> {"h", "/"}] : n \in 0..MaxApiBaseLen }
Providers == { "openai", "anthropic", "gemini", "OpenAI" }
RetryConfigs == { [enabled |-> TRUE, maxRetries |-> 2], [enabled |-> FALSE, maxRetries |-> 2] }
FirstResults == { "chunk", "return", "throw" }

\* LLMProvider
ANTHROPIC == "anthropic"
OPENAI == "openai"

\* Mutant: at most one trailing slash is removed.
StripOneSlash(apiBase) ==
  IF apiBase # <<>> /\ apiBase[Len(apiBase)] = "/"
  THEN SubSeq(apiBase, 1, Len(apiBase) - 1)
  ELSE apiBase

\* apiBase.replace(/\/+$/, "")
RECURSIVE StripTrailingSlashes(_)
StripTrailingSlashes(apiBase) ==
  IF apiBase # <<>> /\ apiBase[Len(apiBase)] = "/"
  THEN StripTrailingSlashes(SubSeq(apiBase, 1, Len(apiBase) - 1))
  ELSE apiBase

\* Mutant: the transport gets retryConfig.maxRetries whether retries are enabled or not.
AdapterAlwaysRetries(kind, apiKey, apiBase, model, retryConfig) ==
  [kind |-> kind, apiKey |-> apiKey, apiBase |-> apiBase, model |-> model,
   retryConfig |-> retryConfig,
   maxRetries |-> retryConfig.maxRetries]

\* new OpenAIClient(...) / new AnthropicClient(...): what the adapter is built with.
Adapter(kind, apiKey, apiBase, model, retryConfig) ==
  [kind |-> kind, apiKey |-> apiKey, apiBase |-> apiBase, model |-> model,
   retryConfig |-> retryConfig,
   maxRetries |-> IF retryConfig.enabled THEN retryConfig.maxRetries ELSE 0]

\* Mutant: an unknown provider falls back to the OpenAI adapter.
DefaultsToOpenAI(p) == IF p = ANTHROPIC THEN Some("anthropic") ELSE Some("openai")

\* switch (provider): the adapter kind of a case, none for the default branch.
AdapterKind(p) ==
  IF p = ANTHROPIC THEN Some("anthropic")
  ELSE IF p = OPENAI THEN Some("openai")
  ELSE None

\* new LLMClient(apiKey, apiBase, provider, model, retryConfig)
Construct ==
  /\ pcFacade = "new"
  /\ LET kind == AdapterKind(facadeArgs.provider)
         fullApiBase == StripTrailingSlashes(facadeArgs.apiBase)
     IN  IF kind # None
         THEN LET adapter == Adapter(kind[1], facadeArgs.apiKey, fullApiBase,
                                     facadeArgs.model, facadeArgs.retryConfig)
              IN  /\ adapters' = Append(adapters, adapter)
                  /\ llmClient' = Some([apiKey |-> facadeArgs.apiKey,
                                        provider |-> facadeArgs.provider,
                                        model |-> facadeArgs.model,
                                        retryConfig |-> facadeArgs.retryConfig,
                                        apiBase |-> fullApiBase,
                                        _client |-> adapter])
                  /\ pcFacade' = "ready"
                  /\ thrown' = thrown
         ELSE /\ thrown' = Some("Unsupported provider: " \o facadeArgs.provider)
              /\ pcFacade' = "threw"
              /\ UNCHANGED <<adapters, llmClient>>
  /\ UNCHANGED <<facadeArgs, probes, chunksRead, connected, attempts>>
  /\ UNCHANGED <<streamVars, convVars, agentVars, consumerVars, pairVars>>

\* Mutant: a stream that ends without a chunk counts as a failed probe.
VerdictNeedsChunk(first) == first = "chunk"

\* return true after generator.next(), return false in the catch.
ProbeVerdict(first) == first # "throw"

\* checkConnection() up to `await generator.next()`: the call of next() runs the adapter's
\* generator to its request, so one request has been handed to the SDK client.
checkConnection ==
  /\ pcFacade = "ready"
  /\ Len(probes) < MaxProbes
  /\ probes' = Append(probes, [adapter |-> llmClient[1]._client,
                               messages |-> <<UserMessage(StringContent("ping"))>>,
                               tools |-> None,
                               first |-> "pending"])
  /\ chunksRead' = 0
  /\ connected' = None
  /\ attempts' = 1
  /\ pcFacade' = "probing"
  /\ UNCHANGED <<facadeArgs, llmClient, adapters, thrown>>
  /\ UNCHANGED <<streamVars, convVars, agentVars, consumerVars, pairVars>>

\* generator.next() settles and checkConnection() resolves.
ProbeSettles ==
  /\ pcFacade = "probing"
  /\ \E first \in FirstResults :
       /\ probes' = [probes EXCEPT ![Len(probes)].first = first]
       /\ chunksRead' = IF first = "chunk" THEN chunksRead + 1 ELSE chunksRead
       /\ connected' = Some(ProbeVerdict(first))
  /\ pcFacade' = "ready"
  /\ UNCHANGED <<facadeArgs, llmClient, adapters, thrown, attempts>>
  /\ UNCHANGED <<streamVars, convVars, agentVars, consumerVars, pairVars>>

InitFacade ==
  /\ facadeArgs \in [apiKey : {"k"}, apiBase : ApiBases, provider : Providers,
                     model : {"m"}, retryConfig : RetryConfigs]
  /\ pcFacade = "new"
  /\ llmClient = None
  /\ adapters = <<>>
  /\ thrown = None
  /\ probes = <<>>
  /\ chunksRead = 0
  /\ connected = None
  /\ attempts = 0
  /\ StreamIdle
  /\ ConvIdle
  /\ AgentIdle
  /\ ConsumerIdle
  /\ PairIdle

NextFacade == Construct \/ checkConnection \/ ProbeSettles

SpecFacade == InitFacade /\ [][NextFacade]_vars

-----------------------------------------------------------------------------
(* Claims about the facade *)

\* C14: for provider "openai" or "anthropic" the constructor builds exactly one
\* adapter, of that kind, and the instance holds it; for any other provider it throws
\* "Unsupported provider: <provider>", builds no adapter and leaves no instance.
FacadeConstruction ==
  /\ pcFacade \in {"ready", "probing"}
       => /\ facadeArgs.provider \in {"openai", "anthropic"}
          /\ Len(adapters) = 1
          /\ adapters[1].kind = facadeArgs.provider
          /\ llmClient # None
          /\ llmClient[1]._client = adapters[1]
          /\ thrown = None
  /\ pcFacade = "threw"
       => /\ facadeArgs.provider \notin {"openai", "anthropic"}
          /\ thrown = Some("Unsupported provider: " \o facadeArgs.provider)
          /\ adapters = <<>>
          /\ llmClient = None
  /\ pcFacade = "new" => (adapters = <<>> /\ llmClient = None)

\* The constructor has thrown for a provider that differs from "openai" only in case.
FacadeConstructionWitness ==
  /\ pcFacade = "threw"
  /\ facadeArgs.provider = "OpenAI"
  /\ thrown = Some("Unsupported provider: OpenAI")

\* C15: every checkConnection call makes one generateStream call on the adapter with
\* the single user message and no tools and reads at most one chunk; it resolves to
\* true when the first next() yields or returns, to false when it throws, and never
\* throws itself.
CheckConnectionNeverThrows ==
  /\ \A i \in 1..Len(probes) :
       /\ probes[i].adapter = adapters[1]
       /\ Len(probes[i].messages) = 1
       /\ probes[i].messages[1].role = "user"
       /\ probes[i].tools = None
  /\ chunksRead <= 1
  /\ probes # <<>> => thrown = None
  /\ pcFacade = "probing" => (connected = None /\ Last(probes).first = "pending")
  /\ (pcFacade = "ready" /\ probes # <<>>)
       => /\ Last(probes).first # "pending"
          /\ connected = Some(Last(probes).first \in {"chunk", "return"})

\* A probe whose stream ended without a chunk resolved to true after one that threw.
CheckConnectionWitness ==
  /\ Len(probes) = 2
  /\ probes[1].first = "throw"
  /\ probes[2].first = "return"
  /\ connected = Some(TRUE)
  /\ chunksRead = 0

-----------------------------------------------------------------------------
(* Claims about the text of a stream *)

\* The text and the thinking text a backend event carries ("" when it carries none).
EventText(event) ==
  IF provider = "openai"
  THEN IF event.choices = <<>> \/ event.choices[1].delta.content = None THEN ""
       ELSE event.choices[1].delta.content[1]
  ELSE IF event.type = "content_block_delta" /\ event.delta_type = "text_delta"
       THEN event.text ELSE ""

EventThinking(event) ==
  IF provider = "openai"
  THEN IF event.choices = <<>> \/ event.choices[1].delta.reasoning = None THEN ""
       ELSE event.choices[1].delta.reasoning[1]
  ELSE IF event.type = "content_block_delta" /\ event.delta_type = "thinking_delta"
       THEN event.thinking ELSE ""

\* The text and the thinking text of a yielded chunk ("" when the field is absent).
ChunkText(chunk) == IF chunk.content = None THEN "" ELSE chunk.content[1]
ChunkThinking(chunk) == IF chunk.thinking = None THEN "" ELSE chunk.thinking[1]

\* C16: the content fields of the yielded chunks, concatenated in yield order, are the
\* backend's text deltas concatenated in arrival order, and likewise for thinking.
ChunkOrder ==
  /\ ConcatStr([i \in 1..Len(yielded) |-> ChunkText(yielded[i])])
       = ConcatStr([i \in 1..Len(events) |-> EventText(events[i])])
  /\ ConcatStr([i \in 1..Len(yielded) |-> ChunkThinking(yielded[i])])
       = ConcatStr([i \in 1..Len(events) |-> EventThinking(events[i])])

\* Two different text fragments and two different thinking fragments have been yielded.
ChunkOrderWitness ==
  /\ ConcatStr([i \in 1..Len(yielded) |-> ChunkText(yielded[i])]) \in {"ba", "ab"}
  /\ ConcatStr([i \in 1..Len(yielded) |-> ChunkThinking(yielded[i])]) \in {"sr", "ut"}

\* C17: the step that reads a backend event carrying text or thinking text also
\* yields a chunk with that text, before any further event is read.
RealTimeDelivery ==
  [][ Len(events') = Len(events) + 1
      => LET event == Last(events')
         IN  /\ EventText(event) # ""
                  => /\ Len(yielded') = Len(yielded) + 1
                     /\ Last(yielded').content = Some(EventText(event))
             /\ EventThinking(event) # ""
                  => /\ Len(yielded') = Len(yielded) + 1
                     /\ Last(yielded').thinking = Some(EventThinking(event)) ]_vars

\* Text has reached the caller while the backend stream is still open and no
\* terminal event has arrived.
RealTimeDeliveryWitness ==
  /\ pcStream = "running"
  /\ Len(events) = 2
  /\ Len(yielded) = 2
  /\ yielded[1].content = Some("a")
  /\ yielded[2].content = Some("b")
  /\ \A i \in 1..Len(yielded) : ~yielded[i].done

-----------------------------------------------------------------------------
(* Claims about the converted messages *)

\* The positions of the system messages of a list.
SystemPositions(msgs) == { i \in 1..Len(msgs) : msgs[i].role = "system" }

\* The system text convertMessages is expected to return for a list: none without a
\* system message, otherwise the text of the system message (the last one of several).
ExpectedSystem(msgs) ==
  IF SystemPositions(msgs) = {} THEN None
  ELSE Some(msgs[CHOOSE i \in SystemPositions(msgs) :
                   \A j \in SystemPositions(msgs) : j <= i].content.text)

\* C18: the Anthropic conversion produces no provider message with role system; the
\* system text is only in the payload's system field, which is null for a list
\* without a system message.
SystemPromptExtraction ==
  convProvider = "anthropic"
    => /\ \A i \in 1..Len(apiMessages) : apiMessages[i].role # "system"
       /\ \A k \in 1..Len(payloads) :
            /\ \A i \in 1..Len(payloads[k].messages) :
                 payloads[k].messages[i].role \in {"user", "assistant"}
            /\ payloads[k].system = ExpectedSystem(inputMessages)

\* A list with a system message and two others has been converted.
SystemPromptExtractionWitness ==
  /\ convProvider = "anthropic"
  /\ Len(payloads) >= 1
  /\ Len(inputMessages) = 3
  /\ payloads[1].system = Some("S")
  /\ Len(payloads[1].messages) = 2

\* C19: the OpenAI conversion returns no system prompt and one provider message per
\* input message, in order and with the same role; a tool message becomes a role-tool
\* message with the same tool_call_id.
OpenAIOneToOne ==
  convProvider = "openai"
    => /\ systemPrompt = None
       /\ pcConv = "loop" => Len(apiMessages) = cursor - 1
       /\ (pcConv = "idle" /\ payloads # <<>>) => Len(apiMessages) = Len(inputMessages)
       /\ \A i \in 1..Len(apiMessages) :
            /\ apiMessages[i].role = inputMessages[i].role
            /\ inputMessages[i].role = "tool"
                 => apiMessages[i].tool_call_id = inputMessages[i].tool_call_id
       /\ \A k \in 1..Len(payloads) : Len(payloads[k].apiMessages) = Len(inputMessages)

\* A list of a system message, another message and a tool message has been converted.
OpenAIOneToOneWitness ==
  /\ convProvider = "openai"
  /\ Len(payloads) >= 1
  /\ Len(payloads[1].apiMessages) = 3
  /\ payloads[1].apiMessages[1].role = "system"
  /\ payloads[1].apiMessages[3].role = "tool"
  /\ payloads[1].apiMessages[3].tool_call_id = "toolu_2"

\* A provider message carries text, thinking or tool calls.
CarriesSomething(apiMessage) ==
  IF convProvider = "openai"
  THEN \/ TruthyContent(apiMessage.content)
       \/ apiMessage.tool_calls # None
       \/ apiMessage.reasoning_details # None
  ELSE apiMessage.content.blocks # <<>>

\* C20: no assistant provider message, of either adapter, is without text, thinking
\* and tool calls.
NoEmptyAssistantTurn ==
  \A i \in 1..Len(apiMessages) :
    apiMessages[i].role = "assistant" => CarriesSomething(apiMessages[i])

-----------------------------------------------------------------------------
(* Claims that join a stream with the conversion of its result *)

\* convertMessages on a whole list: the apiMessages it returns.
OAConvertMessages(msgs) == [i \in 1..Len(msgs) |-> OAConvertMessage(msgs[i])]

RECURSIVE ANConvertFrom(_, _, _)
ANConvertFrom(api, msgs, at) ==
  IF at > Len(msgs) THEN api
  ELSE ANConvertFrom(ANApiAfter(api, msgs[at], at), msgs, at + 1)

ANConvertMessages(msgs) == ANConvertFrom(<<>>, msgs, 1)

\* The history that echoes a list of tool calls back: the assistant message holding
\* them, then one tool message per call with the call's id as tool_call_id.
EchoOf(calls) ==
  <<AssistantMessage(AbsentContent, None, Some(calls))>>
  \o [i \in 1..Len(calls) |-> ToolMessage("r", calls[i].id, None)]

\* C21: each ToolCall of the terminal chunk has the identifier the backend sent for
\* its index / block, and when the assistant message holding the calls and their tool
\* messages are converted to the wire format, the tool-use entry and the tool-result
\* entry of each call carry that identifier.
IdentifierRoundTrip ==
  TerminalJustSeen =>
    LET actual == ToolCallsOf(Last(yielded))
        sent == StreamToolCalls(events)
    IN  /\ Len(actual) = Len(sent)
        /\ \A i \in 1..Len(sent) : actual[i].id = sent[i].id
        /\ actual # <<>> =>
             IF provider = "openai"
             THEN LET wire == OAConvertMessages(EchoOf(actual))
                  IN  /\ Len(wire) = 1 + Len(sent)
                      /\ wire[1].tool_calls # None
                      /\ Len(wire[1].tool_calls[1]) = Len(sent)
                      /\ \A i \in 1..Len(sent) :
                           /\ wire[1].tool_calls[1][i].id = sent[i].id
                           /\ wire[1 + i].role = "tool"
                           /\ wire[1 + i].tool_call_id = sent[i].id
             ELSE LET wire == ANConvertMessages(EchoOf(actual))
                  IN  /\ Len(wire) = 2
                      /\ Len(wire[1].content.blocks) = Len(sent)
                      /\ Len(wire[2].content.blocks) = Len(sent)
                      /\ \A i \in 1..Len(sent) :
                           /\ wire[1].content.blocks[i].type = "tool_use"
                           /\ wire[1].content.blocks[i].id = sent[i].id
                           /\ wire[2].content.blocks[i].type = "tool_result"
                           /\ wire[2].content.blocks[i].tool_use_id = sent[i].id

\* An Anthropic turn has ended with the tool call of block toolu_2 in its last chunk.
IdentifierRoundTripWitness ==
  /\ provider = "anthropic"
  /\ TerminalJustSeen
  /\ Len(ToolCallsOf(Last(yielded))) = 1
  /\ ToolCallsOf(Last(yielded))[1].id = "toolu_2"

-----------------------------------------------------------------------------
(* Claims about the conversion of assistant text *)

\* An assistant message made of non-empty text only.
IsPureText(msg) ==
  /\ msg.role = "assistant"
  /\ msg.content.kind = "string"
  /\ msg.content.text # ""
  /\ msg.thinking = None
  /\ msg.tool_calls = None

\* C22: the step that converts an assistant message made of non-empty text only adds
\* one provider message: for OpenAI an assistant message whose content is the text,
\* without tool_calls and reasoning; for Anthropic an assistant message with exactly
\* one block, a text block holding the text.
TextRoundTrip ==
  [][ ( /\ pcConv = "loop"
        /\ cursor <= Len(inputMessages)
        /\ IsPureText(inputMessages[cursor])
        /\ cursor' = cursor + 1 )
      => ( /\ Len(apiMessages') = Len(apiMessages) + 1
           /\ Last(apiMessages').role = "assistant"
           /\ IF convProvider = "openai"
              THEN /\ Last(apiMessages').content.kind = "string"
                   /\ Last(apiMessages').content.text = inputMessages[cursor].content.text
                   /\ Last(apiMessages').tool_calls = None
                   /\ Last(apiMessages').reasoning_details = None
              ELSE /\ Len(Last(apiMessages').content.blocks) = 1
                   /\ Last(apiMessages').content.blocks[1]
                        = [type |-> "text", text |-> inputMessages[cursor].content.text] ) ]_vars

\* The Anthropic conversion of a list that ends with a text-only assistant message
\* has returned.
TextRoundTripWitness ==
  /\ convProvider = "anthropic"
  /\ Len(payloads) >= 1
  /\ inputMessages # <<>>
  /\ IsPureText(Last(inputMessages))
  /\ Last(payloads[1].messages).content.blocks = <<[type |-> "text", text |-> "ok"]>>

-----------------------------------------------------------------------------
(* Claims about the endpoint *)

\* s is t without its trailing slashes.
IsNormalizedFrom(s, t) ==
  /\ IsPrefix(s, t)
  /\ s = <<>> \/ Last(s) # "/"
  /\ \A i \in (Len(s) + 1)..Len(t) : t[i] = "/"

\* C24: for a supported provider the endpoint stored on the facade and the one handed
\* to the adapter are apiBase without its trailing slashes, and normalizing the
\* stored endpoint again changes nothing.
EndpointNormalization ==
  pcFacade \in {"ready", "probing"}
    => /\ IsNormalizedFrom(llmClient[1].apiBase, facadeArgs.apiBase)
       /\ adapters[1].apiBase = llmClient[1].apiBase
       /\ StripTrailingSlashes(llmClient[1].apiBase) = llmClient[1].apiBase

\* An endpoint with two trailing slashes has been stored without them.
EndpointNormalizationWitness ==
  /\ pcFacade = "ready"
  /\ facadeArgs.apiBase = <<"h", "/", "/">>
  /\ llmClient[1].apiBase = <<"h">>
  /\ adapters[1].apiBase = <<"h">>

-----------------------------------------------------------------------------
(* Claims about tool calls of a stream that is cut short *)

\* The positions of the events that carry a finish reason the loop acts on.
FinishPositions(evs) ==
  { j \in 1..Len(evs) : TruthyStr(FinishReasonOf(evs[j])) }

\* The tool calls whose terminal signal is in the events read so far: for OpenAI the
\* indices that arrived up to the last finish reason, for Anthropic the tool_use
\* blocks closed by a content_block_stop.
TerminatedCalls(evs) ==
  IF provider = "openai"
  THEN IF FinishPositions(evs) = {} THEN <<>>
       ELSE FirstSeen(OACallsIn(SubSeq(evs, 1, Last(Ascending(FinishPositions(evs))))),
                      <<>>)
  ELSE CompletedBlocks(evs)

\* C27: whatever prefix of the backend stream has been read (the consumer stopped
\* there, or the stream ended there), the chunks yielded so far hold no more tool
\* calls than the ones whose terminal signal is in that prefix; a tool call still
\* being assembled is in no chunk.
NoPartialToolCall ==
  \A i \in 1..Len(yielded) :
     Len(ToolCallsOf(yielded[i])) <= Len(TerminatedCalls(events))

\* An OpenAI stream delivered fragments of a tool call and then ended without a
\* finish reason; every chunk that was yielded is without tool calls.
NoPartialToolCallWitness ==
  /\ provider = "openai"
  /\ pcStream = "ended"
  /\ OACallsIn(events) # <<>>
  /\ FinishPositions(events) = {}
  /\ yielded # <<>>
  /\ \A i \in 1..Len(yielded) : ToolCallsOf(yielded[i]) = <<>>

-----------------------------------------------------------------------------
(* Claims about the order of the tool calls *)

\* Anthropic: the completed tool_use blocks in the order of their content_block_stop.
BlocksByCompletion(evs) ==
  LET blocks == CompletedBlocks(evs)
      stops == Ascending({ blocks[i][2] : i \in 1..Len(blocks) })
  IN  [i \in 1..Len(stops) |->
         CHOOSE b \in Range(blocks) : b[2] = stops[i]]

\* The identifier and the name of each tool call of a list, in its order.
Labels(calls) ==
  [i \in 1..Len(calls) |-> <<calls[i].id, calls[i].function.name>>]

\* C28: the tool calls are kept in first-seen order.  OpenAI: the accumulator holds
\* the indices in order of first arrival, whatever fragments came later, and the
\* list of the terminal chunk follows that order.  Anthropic: the accumulated list,
\* and the list of the terminal chunk, follow the order in which the blocks closed.
FirstSeenOrder ==
  IF provider = "openai"
  THEN LET calls == OACallsIn(events)
           order == FirstSeen(calls, <<>>)
       IN  /\ [i \in 1..Len(toolCallAcc) |-> toolCallAcc[i].index] = order
           /\ TerminalJustSeen =>
                Labels(ToolCallsOf(Last(yielded)))
                  = [i \in 1..Len(order) |->
                       <<OASentId(calls, order[i]),
                         ConcatStr(OANameFragments(calls, order[i]))>>]
  ELSE LET blocks == BlocksByCompletion(events)
           sent == [i \in 1..Len(blocks) |->
                      <<events[blocks[i][1]].id, events[blocks[i][1]].name>>]
       IN  /\ Labels(accumulatedToolCalls) = sent
           /\ TerminalJustSeen => Labels(ToolCallsOf(Last(yielded))) = sent

\* An OpenAI turn ended in which index 1 arrived before index 0 and got another
\* fragment after index 0 had arrived; the terminal chunk lists call_2 first.
FirstSeenOrderWitness ==
  /\ provider = "openai"
  /\ TerminalJustSeen
  /\ FirstSeen(OACallsIn(events), <<>>) = <<1, 0>>
  /\ Len(CallsOfIndex(OACallsIn(events), 1)) >= 2
  /\ IndexOf(Last(OACallsIn(events))) = 1
  /\ Labels(ToolCallsOf(Last(yielded))) = << <<"call_2", "put">>, <<"call_1", "get">> >>

-----------------------------------------------------------------------------
(* Claims about what run() hands on *)

\* C29: the assistant message run() appends for a returned turn carries the turn's
\* text and thinking and, when the turn has tool calls, the turn's tool-call list.
AssistantMessageFidelity ==
  [][ \A i \in 1..MaxRuns :
        TurnReturned(i)
        => LET response == TurnOf(i)
               appended == Last(messages')
           IN  /\ Len(messages') = Len(messages) + 1
               /\ appended.role = "assistant"
               /\ appended.content = StringContent(response.content)
               /\ appended.thinking = response.thinking
               /\ ToolCallsOfTurn(response) # <<>>
                    => /\ "tool_calls" \in DOMAIN appended
                       /\ appended.tool_calls = response.tool_calls ]_vars

\* This step issues a model call of the run i.
CallIssued(i) ==
  /\ i <= Len(runs')
  /\ Len(runs'[i].modelCalls) = (IF i <= Len(runs) THEN Len(runs[i].modelCalls) ELSE 0) + 1

\* C30: every model call of a run is given the whole history as it is when the call
\* is issued, system message first, and a tool catalog.
FullHistoryAndCatalog ==
  [][ \A i \in 1..MaxRuns :
        CallIssued(i)
        => ( /\ Last(runs'[i].modelCalls) = messages'
             /\ Last(runs'[i].modelCalls)[1] = SystemMessage(agentSystemPrompt)
             /\ Len(runs'[i].modelCallTools) = Len(runs'[i].modelCalls)
             /\ Last(runs'[i].modelCallTools) # None ) ]_vars

-----------------------------------------------------------------------------
(* A consumer of a generateStream generator                                *)
(*                                                                         *)
(* The consumer iterates the generator of LLMClient.generateStream, which  *)
(* delegates to the adapter's generator with yield*; or it is              *)
(* checkConnection, which takes the adapter's generator, awaits one next() *)
(* and returns.  A generator runs only while a next() is awaited: the      *)
(* adapter reads backend events until it yields, ends or throws.  The      *)
(* backend stream of the call is a sequence of events fixed beforehand; it *)
(* may also fail in place of delivering its next event.  Leaving a         *)
(* for-await loop calls return() on the generator, which ends the          *)
(* adapter's for-await and with it the backend stream's iterator.          *)

\* Longest backend stream, in events.
MaxScript == 3

OAScriptChunks ==
  { OAChunk(Delta(Some("a"), None, None), None),
    OAChunk(Delta(Some("b"), Some("s"), None), None),
    OAChunk(Delta(None, None,
                  Some(<<CallDelta(Some(0), Some("call_1"), Some("function"), Some("get"),
                                   Some(<<"{", "\"a\"", ":">>))>>)), None),
    OAChunk(Delta(None, None, None), Some("stop")),
    OAChunk(Delta(None, None, None), Some("tool_calls")) }

ANScriptEvents ==
  { TextDelta("a"), ThinkingDelta("t"), ToolUseStart("toolu_1", "get"), BlockStop,
    MessageDelta(Some("tool_use")), MessageStop }

\* The backend streams a call may get from the provider p.
Scripts(p) ==
  UNION { [1..n -> IF p = OPENAI THEN OAScriptChunks ELSE ANScriptEvents] :
            n \in 0..MaxScript }

\* The arguments of a generateStream call.
CallArguments ==
  { [messages |-> <<UserMessage(StringContent("hi"))>>, tools |-> None],
    [messages |-> <<UserMessage(StringContent("hi"))>>,
     tools |-> Some(<<Tool("get", "d", EmptyObject)>>)] }

\* checkConnection: msgs = [{ role: "user", content: "ping" }], tools = null
PingArguments ==
  [messages |-> <<UserMessage(StringContent("ping"))>>, tools |-> None]

\* this._client.generateStream(messages, tools): the arguments handed to the adapter.
DelegatedArguments(args) == [messages |-> args.messages, tools |-> args.tools]

\* Mutant: the delegating generator hands on the chunks without their tool calls.
YieldStarDropsToolCalls(inner, n) == [inner[n] EXCEPT !.tool_calls = None]

\* yield* : the n-th value of the delegating generator is the n-th value of the inner.
YieldStar(inner, n) == inner[n]

\* The adapter has yielded nothing that the consumer has not received.
CaughtUp == Len(received) = Len(yielded)

\* The backend stream is open: the adapter's for-await over it has begun and has not
\* been left.
StreamOpen == pcStream = "running"

\* A consumer calls llmClient.generateStream(messages, tools): the call makes the
\* generator and runs none of its body, so the adapter is not called yet.
generateStream ==
  /\ pcFacade = "ready"
  /\ pcConsumer = "idle"
  /\ \E args \in CallArguments : callArgs' = Some(args)
  /\ consumer' = "iteration"
  /\ pcConsumer' = "holding"
  /\ UNCHANGED <<backend, received, caught, streamError, adapterArgs, readAtStop>>
  /\ UNCHANGED <<streamVars, convVars, agentVars, facadeVars, pairVars>>

\* checkConnection calls this._client.generateStream(msgs, null).
ProbeCalls ==
  /\ pcFacade = "ready"
  /\ pcConsumer = "idle"
  /\ callArgs' = Some(PingArguments)
  /\ adapterArgs' = Some(PingArguments)
  /\ consumer' = "checkConnection"
  /\ pcConsumer' = "holding"
  /\ UNCHANGED <<backend, received, caught, streamError, readAtStop>>
  /\ UNCHANGED <<streamVars, convVars, agentVars, facadeVars, pairVars>>

\* The consumer awaits next(); checkConnection does so once.  The first next() of an
\* iteration runs the body of the facade's generator up to its yield*, which calls
\* this._client.generateStream(messages, tools).  The first next() runs the adapter's
\* generator up to its first await, where the request of the model call is handed to
\* the SDK client: the transport sends it for the first time.
ConsumerNext ==
  /\ pcConsumer = "holding"
  /\ consumer = "checkConnection" => received = <<>>
  /\ pcConsumer' = "pulling"
  /\ adapterArgs' = IF consumer = "iteration" /\ adapterArgs = None
                    THEN Some(DelegatedArguments(callArgs[1]))
                    ELSE adapterArgs
  /\ attempts' = IF pcStream = "idle" /\ received = <<>> THEN 1 ELSE attempts
  /\ UNCHANGED <<consumer, backend, received, caught, streamError, callArgs, readAtStop>>
  /\ UNCHANGED <<facadeArgs, pcFacade, llmClient, adapters, thrown, probes, chunksRead,
                 connected>>
  /\ UNCHANGED <<streamVars, convVars, agentVars, pairVars>>

\* The first next() starts the adapter's generator: it reaches its loop.
AdapterStarts ==
  /\ pcConsumer = "pulling"
  /\ pcStream = "idle"
  /\ provider' = llmClient[1]._client.kind
  /\ pcStream' = "running"
  /\ UNCHANGED <<events, yielded, toolCallAcc, finalToolCalls, finalFinishReason,
                 accumulatedToolCalls, currentToolCall, finishReason, fullContent,
                 fullThinking, chunkCount>>
  /\ UNCHANGED <<convVars, agentVars, facadeVars, consumerVars, pairVars>>

\* The adapter, resumed by a next(), reads the next backend event.
AdapterReads ==
  /\ pcConsumer = "pulling"
  /\ CaughtUp
  /\ Len(events) < Len(backend)
  /\ \/ OAStep(backend[Len(events) + 1])
     \/ ANStep(backend[Len(events) + 1])

\* The adapter, resumed by a next(), finds the backend stream at its end.
AdapterFinishes ==
  /\ pcConsumer = "pulling"
  /\ CaughtUp
  /\ Len(events) = Len(backend)
  /\ StreamEnd

\* The transport's resending, which is in the SDK packages and taken from the
\* specification: a failed request is sent again, up to the maxRetries the SDK client
\* was constructed with; the adapters write no retry of their own.  The request is
\* pending from the first next() until the stream is open.
TransportRetries ==
  /\ pcConsumer = "pulling"
  /\ pcStream = "idle"
  /\ attempts >= 1
  /\ attempts - 1 < llmClient[1]._client.maxRetries
  /\ attempts' = attempts + 1
  /\ UNCHANGED <<facadeArgs, pcFacade, llmClient, adapters, thrown, probes, chunksRead,
                 connected>>
  /\ UNCHANGED <<streamVars, convVars, agentVars, consumerVars, pairVars>>

\* The model call fails: the SDK client rejects the request (retries exhausted, or an
\* error it does not retry), or the backend stream throws in place of delivering its
\* next event.  Nothing in the adapter catches it.
AdapterThrows ==
  /\ pcConsumer = "pulling"
  /\ pcStream \in {"idle", "running"}
  /\ CaughtUp
  /\ \E error \in Errors : streamError' = Some(error)
  /\ pcStream' = "threw"
  /\ UNCHANGED <<provider, events, yielded, toolCallAcc, finalToolCalls,
                 finalFinishReason, accumulatedToolCalls, currentToolCall,
                 finishReason, fullContent, fullThinking, chunkCount>>
  /\ UNCHANGED <<consumer, backend, pcConsumer, received, caught, callArgs, adapterArgs,
                 readAtStop>>
  /\ UNCHANGED <<convVars, agentVars, facadeVars, pairVars>>

\* The awaited next() resolves with the chunk the adapter has yielded: through yield*
\* for the facade's generator, as it is for checkConnection.
NextResolves ==
  /\ pcConsumer = "pulling"
  /\ Len(received) < Len(yielded)
  /\ received' = Append(received,
                        IF consumer = "iteration"
                        THEN YieldStar(yielded, Len(received) + 1)
                        ELSE yielded[Len(received) + 1])
  /\ pcConsumer' = "holding"
  /\ UNCHANGED <<consumer, backend, caught, streamError, callArgs, adapterArgs, readAtStop>>
  /\ UNCHANGED <<streamVars, convVars, agentVars, facadeVars, pairVars>>

\* The awaited next() resolves with done: the adapter's generator has returned.
NextReturns ==
  /\ pcConsumer = "pulling"
  /\ pcStream = "ended"
  /\ pcConsumer' = "finished"
  /\ UNCHANGED <<consumer, backend, received, caught, streamError, callArgs, adapterArgs,
                 readAtStop>>
  /\ UNCHANGED <<streamVars, convVars, agentVars, facadeVars, pairVars>>

\* The awaited next() rejects with the error that left the adapter's generator.
NextRejects ==
  /\ pcConsumer = "pulling"
  /\ pcStream = "threw"
  /\ caught' = streamError
  /\ pcConsumer' = "failed"
  /\ UNCHANGED <<consumer, backend, received, streamError, callArgs, adapterArgs,
                 readAtStop>>
  /\ UNCHANGED <<streamVars, convVars, agentVars, facadeVars, pairVars>>

\* The consumer leaves its for-await loop (break or return in the body): return() is
\* called on the generator, the adapter's loop is left and the backend stream closed.
ConsumerBreaks ==
  /\ consumer = "iteration"
  /\ pcConsumer = "holding"
  /\ received # <<>>
  /\ pcConsumer' = "abandoned"
  /\ readAtStop' = Len(events)
  /\ pcStream' = "returned"
  /\ UNCHANGED <<provider, events, yielded, toolCallAcc, finalToolCalls,
                 finalFinishReason, accumulatedToolCalls, currentToolCall,
                 finishReason, fullContent, fullThinking, chunkCount>>
  /\ UNCHANGED <<consumer, backend, received, caught, streamError, callArgs, adapterArgs>>
  /\ UNCHANGED <<convVars, agentVars, facadeVars, pairVars>>

\* checkConnection returns true after its next() gave a chunk: the generator is not
\* touched again, and nothing calls return() on it.
ProbeReturns ==
  /\ consumer = "checkConnection"
  /\ pcConsumer = "holding"
  /\ Len(received) = 1
  /\ pcConsumer' = "dropped"
  /\ readAtStop' = Len(events)
  /\ UNCHANGED <<consumer, backend, received, caught, streamError, callArgs, adapterArgs>>
  /\ UNCHANGED <<streamVars, convVars, agentVars, facadeVars, pairVars>>

\* An LLMClient about to be constructed for a supported provider, and the backend
\* stream its generateStream call will get.
InitConsume ==
  /\ facadeArgs \in [apiKey : {"k"}, apiBase : {<<"h", "/">>},
                     provider : {OPENAI, ANTHROPIC}, model : {"m"},
                     retryConfig : RetryConfigs]
  /\ pcFacade = "new"
  /\ llmClient = None
  /\ adapters = <<>>
  /\ thrown = None
  /\ probes = <<>>
  /\ chunksRead = 0
  /\ connected = None
  /\ attempts = 0
  /\ StreamIdle
  /\ ConvIdle
  /\ AgentIdle
  /\ PairIdle
  /\ consumer = "none"
  /\ backend \in Scripts(facadeArgs.provider)
  /\ pcConsumer = "idle"
  /\ received = <<>>
  /\ caught = None
  /\ streamError = None
  /\ callArgs = None
  /\ adapterArgs = None
  /\ readAtStop = 0

NextConsume ==
  \/ Construct \/ generateStream \/ ProbeCalls \/ ConsumerNext \/ TransportRetries
  \/ AdapterStarts \/ AdapterReads \/ AdapterFinishes \/ AdapterThrows
  \/ NextResolves \/ NextReturns \/ NextRejects \/ ConsumerBreaks \/ ProbeReturns

SpecConsume == InitConsume /\ [][NextConsume]_vars

\* The streaming test's loop goes round: the chunk it received is not a done chunk
\* and the chunks so far are not over 200 (if (chunks > 200) break), so the next
\* chunk is awaited.
TestLoopNext ==
  /\ consumer = "iteration"
  /\ received # <<>> => (~Last(received).done /\ Len(received) <= 200)
  /\ ConsumerNext

\* The streaming test's loop is left: the chunk it received is a done chunk, or the
\* chunks so far are over 200.
TestLoopBreaks ==
  /\ received # <<>>
  /\ Last(received).done \/ Len(received) > 200
  /\ ConsumerBreaks

\* The streaming test's consumer on a stream the backend delivers whole: it iterates
\* until a done chunk (or the chunk limit) and then leaves the loop, or until the
\* generator ends; every step that can be taken is taken.
NextIterate ==
  \/ Construct \/ generateStream \/ TestLoopNext \/ TestLoopBreaks \/ AdapterStarts
  \/ AdapterReads \/ AdapterFinishes \/ NextResolves \/ NextReturns

SpecIterate == InitConsume /\ [][NextIterate]_vars /\ WF_vars(NextIterate)

-----------------------------------------------------------------------------
(* Claims about the consumer's side of generateStream *)

\* C23: the adapter's generateStream is called, by the first next() and not before,
\* with the arguments given to the facade's; the chunks the consumer has received
\* from the facade's generator are the chunks the adapter's generator has yielded,
\* the same chunks in the same order, all of them whenever no next() is awaited; the
\* facade's generator ends only when the adapter's has ended, and the error the
\* consumer catches is the one thrown in the adapter.
FacadeTransparency ==
  consumer = "iteration"
    => /\ adapterArgs # None => adapterArgs = callArgs
       /\ adapterArgs = None <=> (pcConsumer = "holding" /\ received = <<>>)
       /\ adapterArgs = None => pcStream = "idle"
       /\ provider # "none" => provider = llmClient[1]._client.kind
       /\ IsPrefix(received, yielded)
       /\ pcConsumer \in {"holding", "finished", "failed", "abandoned"}
            => received = yielded
       /\ pcConsumer = "finished" => pcStream = "ended"
       /\ pcConsumer = "failed" => caught # None /\ caught = streamError
       /\ pcConsumer # "failed" => caught = None

\* An iteration over the facade's generator has received a text chunk and, two chunks
\* later, a chunk with a tool call, and then the error the backend stream threw.
FacadeTransparencyWitness ==
  /\ consumer = "iteration"
  /\ pcConsumer = "failed"
  /\ caught = Some("ECONNRESET")
  /\ Len(received) = 3
  /\ ChunkText(received[1]) = "a"
  /\ ToolCallsOf(received[3]) # <<>>
  /\ callArgs[1].tools # None

\* The last event of the call's backend stream is the provider's terminal signal.
EndsWithTerminal ==
  /\ backend # <<>>
  /\ IF facadeArgs.provider = OPENAI THEN FinishReasonOf(Last(backend)) # None
     ELSE Last(backend).type = "message_stop"

\* The backend event at position n is the provider's terminal signal.
IsTerminal(n) ==
  IF facadeArgs.provider = OPENAI THEN FinishReasonOf(backend[n]) # None
  ELSE backend[n].type = "message_stop"

\* The position of the first terminal signal of the backend stream: there the turn
\* ends.
FirstTerminal ==
  CHOOSE n \in 1..Len(backend) : IsTerminal(n) /\ \A m \in 1..(n-1) : ~IsTerminal(m)

\* The consumer has received a chunk with done=true, and the chunks up to and
\* including it hold all the text of the turn: that of the backend events up to and
\* including the first terminal signal.
DoneWithAllText ==
  \E n \in 1..Len(received) :
     /\ received[n].done
     /\ ConcatStr([i \in 1..n |-> ChunkText(received[i])])
          = ConcatStr([i \in 1..FirstTerminal |-> EventText(backend[i])])

\* C25: when the backend stream ends with its terminal signal, a consumer that
\* iterates the facade's generator until it has a done chunk eventually has one, with
\* all the text of the turn delivered in the chunks up to and including it.
EventualDone ==
  (pcConsumer = "holding" /\ EndsWithTerminal) ~> DoneWithAllText

\* An iteration has left its loop at the done chunk of a stream of three events that
\* carried text before its only terminal signal, the last event.
EventualDoneWitness ==
  /\ pcConsumer = "abandoned"
  /\ EndsWithTerminal
  /\ FirstTerminal = Len(backend)
  /\ Len(backend) = 3
  /\ DoneWithAllText
  /\ ConcatStr([i \in 1..Len(backend) |-> EventText(backend[i])]) # ""
  /\ Last(received).done
  /\ readAtStop = Len(backend)

\* C26: once the consumer has stopped (it left its loop, or it is checkConnection
\* returning after its single next()), the adapter reads no further backend event and
\* the backend stream is not left open.
CancellationStopsReads ==
  pcConsumer \in {"abandoned", "dropped"}
    => /\ Len(events) = readAtStop
       /\ ~StreamOpen

-----------------------------------------------------------------------------
(* Claims about the ends of the loop of run() *)

\* This step is a call of run().
RunIsCalled == Len(runs') = Len(runs) + 1

\* C37: with maxSteps zero or negative a call of run() issues no model call, leaves
\* the history as it is and resolves to the ceiling message.
DegenerateStepCeiling ==
  [][ (RunIsCalled /\ maxSteps <= 0)
      => ( /\ Last(runs').modelCalls = <<>>
           /\ messages' = messages
           /\ Last(runs').pc = "settled"
           /\ Last(runs').outcome = Resolved(CeilingMessage(maxSteps)) ) ]_vars

\* A run with maxSteps = -1 has resolved on a history that holds a user message.
DegenerateStepCeilingWitness ==
  /\ maxSteps = -1
  /\ lastCall = "run"
  /\ runs # <<>>
  /\ Last(runs).outcome = Resolved("Task couldn't be completed after -1 steps.")
  /\ Last(runs).modelCalls = <<>>
  /\ Len(messages) >= 2

\* C38: a returned turn whose tool-call list is present but empty ends the run like
\* a turn without the field: no further model call, and run() resolves to the
\* turn's text.
EmptyToolCallListIsNone ==
  [][ \A i \in 1..MaxRuns :
        ( /\ TurnReturned(i)
          /\ TurnOf(i).tool_calls = Some(<<>>) )
        => ( /\ runs'[i].modelCalls = runs[i].modelCalls
             /\ runs'[i].pc = "settled"
             /\ runs'[i].outcome = Resolved(TurnOf(i).content) ) ]_vars

\* The assistant messages of the turns a run's model calls returned.
TurnsOfRun(results) ==
  LET returned == SelectSeq(results, LAMBDA r : r.response # None)
  IN  [i \in 1..Len(returned) |-> AssistantTurn(returned[i].response[1])]

\* No other call on the Agent has touched the history while the suspended run i
\* awaited its model calls: each call after the first was given the history of the
\* call before it and that call's turn, and the history is still the one given to
\* the call that is pending.
Undisturbed(i) ==
  /\ messages = Last(runs[i].modelCalls)
  /\ \A k \in 2..Len(runs[i].modelCalls) :
       runs[i].modelCalls[k]
         = Append(runs[i].modelCalls[k-1],
                  AssistantTurn(runs[i].modelResults[k-1].response[1]))

\* This step is the one in which the run i returns the ceiling message after a turn.
CeilingReturned(i) ==
  /\ TurnReturned(i)
  /\ runs'[i].pc = "settled"
  /\ runs'[i].outcome = Resolved(CeilingMessage(maxSteps))
  /\ ~TaskComplete(TurnOf(i))

\* C31: the step in which a run returns the ceiling message removes and rewrites
\* nothing: it leaves the history as it is (no step taken) or adds the last turn's
\* assistant message at its end; when no other call on the Agent touched the history
\* during the run, the history is then the history the run was called with followed
\* by the assistant message of each step, in order; and a call of run() starts its
\* first model call from the history as it stands, whatever earlier runs and
\* addUserMessage calls have put there.
CeilingKeepsHistory ==
  [][ /\ (RunIsCalled /\ Last(runs').pc = "settled") => messages' = messages
      /\ \A i \in 1..MaxRuns :
           CeilingReturned(i)
           => /\ messages' = Append(messages, AssistantTurn(TurnOf(i)))
              /\ Undisturbed(i)
                   => messages' = runs'[i].modelCalls[1] \o TurnsOfRun(runs'[i].modelResults)
      /\ (RunIsCalled /\ Last(runs').modelCalls # <<>>)
           => Last(runs').modelCalls[1] = messages ]_vars

\* A run with maxSteps = 1 on a history with a user message has returned the ceiling
\* message, the history holding the system message, the user message and the turn; a
\* user message has been added and a second run has started from those four.
CeilingKeepsHistoryWitness ==
  /\ maxSteps = 1
  /\ Len(runs) = 2
  /\ runs[1].outcome = Resolved(CeilingMessage(1))
  /\ Len(runs[1].modelCalls[1]) = 2
  /\ runs[1].modelCalls[1][2].role = "user"
  /\ Len(runs[2].modelCalls[1]) = 4
  /\ runs[2].modelCalls[1]
       = Append(runs[1].modelCalls[1] \o TurnsOfRun(runs[1].modelResults),
                runs[2].modelCalls[1][4])
  /\ runs[2].modelCalls[1][4].role = "user"

\* C36: a run never issues more than maxSteps model calls; a step of a run adds one
\* assistant message to the history when its model call returned and nothing
\* otherwise, so the assistant messages a run appends are as many as its model calls
\* that returned; and, every model call terminating, a run that awaits one settles.
BoundedLoop ==
  /\ [](\A i \in 1..Len(runs) :
          Len(runs[i].modelCalls) <= (IF maxSteps > 0 THEN maxSteps ELSE 0))
  /\ [][ /\ RunIsCalled => messages' = messages
         /\ \A i \in 1..MaxRuns :
              /\ TurnThrew(i) => messages' = messages
              /\ TurnReturned(i)
                   => /\ Len(messages') = Len(messages) + 1
                      /\ IsPrefix(messages, messages')
                      /\ Last(messages').role = "assistant" ]_vars
  /\ \A i \in 1..MaxRuns :
       (i <= Len(runs) /\ runs[i].pc = "awaiting")
         ~> (i <= Len(runs) /\ runs[i].pc = "settled"
             /\ runs[i].outcome.kind \in {"resolved", "rejected"})

\* Two runs with maxSteps = 2 were suspended together; the first has been rejected by
\* its second model call after its first returned, the second has resolved.
BoundedLoopWitness ==
  /\ maxSteps = 2
  /\ Len(runs) = 2
  /\ runs[1].outcome.kind = "rejected"
  /\ Len(runs[1].modelCalls) = 2
  /\ runs[2].outcome.kind = "resolved"
  /\ runs[2].modelCalls[1] = runs[1].modelCalls[1]
  /\ Len(messages) = Len(runs[1].modelCalls[1]) + 2
  /\ Last(messages).role = "assistant"

-----------------------------------------------------------------------------
(* Claims about the adapters' loops, event by event *)

\* C34: in the Anthropic loop a content_block_stop adds a tool call exactly when a
\* tool_use block is open, and closes it; an input_json_delta with no open block
\* changes nothing; no other event adds a tool call.  After every event the list has
\* one entry per tool_use start that a content_block_stop follows before the next
\* tool_use start, with that block's identifier and name and the arguments parsed
\* from the fragments that arrived inside that block only.
AnthropicBlockAccounting ==
  [][ (provider = "anthropic" /\ Len(events') = Len(events) + 1)
      => LET event == Last(events')
             blocks == CompletedBlocks(events')
         IN  /\ IF event.type = "content_block_stop"
                THEN /\ currentToolCall' = None
                     /\ Len(accumulatedToolCalls')
                          = Len(accumulatedToolCalls)
                              + (IF currentToolCall # None THEN 1 ELSE 0)
                ELSE accumulatedToolCalls' = accumulatedToolCalls
             /\ (IsDelta(event, "input_json_delta") /\ currentToolCall = None)
                  => currentToolCall' = None
             /\ IsPrefix(accumulatedToolCalls, accumulatedToolCalls')
             /\ Len(accumulatedToolCalls') = Len(blocks)
             /\ \A i \in 1..Len(blocks) :
                  LET text == ConcatSeq(ANArgumentFragments(events', blocks[i]))
                  IN  /\ accumulatedToolCalls'[i].id = events'[blocks[i][1]].id
                      /\ accumulatedToolCalls'[i].function.name
                           = events'[blocks[i][1]].name
                      /\ accumulatedToolCalls'[i].function.arguments
                           = IF JSONParse(text).ok THEN JSONParse(text).value
                             ELSE EmptyObject ]_vars

\* An Anthropic stream began with an argument fragment outside any block, then
\* opened a tool_use block and sent two stops: one tool call, with arguments {}.
AnthropicBlockAccountingWitness ==
  /\ provider = "anthropic"
  /\ Len(events) = 4
  /\ IsDelta(events[1], "input_json_delta") /\ events[1].partial_json # <<>>
  /\ IsToolUseStart(events[2])
  /\ events[3].type = "content_block_stop"
  /\ events[4].type = "content_block_stop"
  /\ Len(accumulatedToolCalls) = 1
  /\ accumulatedToolCalls[1].function.arguments = EmptyObject
  /\ currentToolCall = None

\* C35: the OpenAI loop yields one chunk for each backend chunk it reads, after the
\* chunks yielded before; that chunk has done=true exactly when the backend chunk
\* carries a finish_reason, and then the same finish_reason.
OpenAIChunkMapping ==
  [][ (provider = "openai" /\ Len(events') = Len(events) + 1)
      => LET chunk == Last(events')
         IN  /\ Len(yielded') = Len(yielded) + 1
             /\ IsPrefix(yielded, yielded')
             /\ Len(yielded') = Len(events')
             /\ Last(yielded').done = (FinishReasonOf(chunk) # None)
             /\ Last(yielded').done
                  => Last(yielded').finish_reason = FinishReasonOf(chunk) ]_vars

\* An OpenAI stream of three chunks, one of them without choices, ended with
\* finish_reason "tool_calls": three chunks yielded, only the last with done=true.
OpenAIChunkMappingWitness ==
  /\ provider = "openai"
  /\ Len(events) = 3
  /\ OANoChoice \in Range(events)
  /\ Len(yielded) = 3
  /\ ~yielded[1].done /\ ~yielded[2].done
  /\ yielded[3].done
  /\ yielded[3].finish_reason = Some("tool_calls")

-----------------------------------------------------------------------------
(* Claims about retries *)

\* C33: the adapter's transport is configured with retryConfig.maxRetries retries when
\* retryConfig.enabled is true and with none when it is false; so the requests sent for
\* one model call, by an iteration of generateStream or by checkConnection, the call
\* that fails and propagates its error included, are at most 1 + maxRetries with
\* retries enabled and exactly one with retries disabled.
RetryBudget ==
  pcFacade = "ready"
    => LET config == facadeArgs.retryConfig
           budget == IF config.enabled THEN config.maxRetries ELSE 0
           sent == pcConsumer = "pulling" \/ pcStream # "idle"
       IN  /\ adapters[1].maxRetries = budget
           /\ llmClient[1]._client.maxRetries = budget
           /\ attempts <= 1 + budget
           /\ sent <=> attempts >= 1
           /\ (~config.enabled /\ sent) => attempts = 1
           /\ (config.enabled /\ sent) => attempts <= 1 + config.maxRetries

\* With retries enabled and maxRetries = 2, the model call of an iteration has failed
\* for good after three requests, before any chunk, and the consumer has the error.
RetryBudgetWitness ==
  /\ pcFacade = "ready"
  /\ facadeArgs.retryConfig = [enabled |-> TRUE, maxRetries |-> 2]
  /\ consumer = "iteration"
  /\ pcConsumer = "failed"
  /\ caught # None
  /\ received = <<>>
  /\ events = <<>>
  /\ attempts = 3

-----------------------------------------------------------------------------
(* Two generateStream calls on one adapter instance                        *)
(*                                                                         *)
(* Both calls have reached their loops; each reads its own backend stream, *)
(* and their reads interleave in any order.  The accumulation state of a   *)
(* call is what generateStream declares with let and const before its loop *)
(* (OpenAI: toolCallAcc, finalToolCalls; Anthropic: accumulatedToolCalls,  *)
(* currentToolCall, finishReason); it is kept here by scope.               *)

\* Most events one call of the pair reads.
MaxCallEvents == 2

Calls == {1, 2}

PairOAChunks ==
  { OAChunk(Delta(None, None,
                  Some(<<CallDelta(Some(0), Some("call_1"), Some("function"), Some("get"),
                                   Some(<<"{", "\"a\"", ":">>))>>)), None),
    OAChunk(Delta(None, None,
                  Some(<<CallDelta(Some(0), None, None, None, Some(<<"1", "}">>))>>)), None),
    OAChunk(Delta(None, None,
                  Some(<<CallDelta(Some(1), Some("call_2"), Some("function"), Some("put"),
                                   Some(<<>>))>>)), None),
    OAChunk(Delta(None, None, None), Some("tool_calls")) }

PairANEvents ==
  { ToolUseStart("toolu_1", "get"), ToolUseStart("toolu_2", "put"),
    InputJsonDelta(<<"{">>), BlockStop, MessageStop }

\* The accumulation state as declared before the loop.
FreshLocals ==
  [toolCallAcc |-> <<>>, finalToolCalls |-> None, accumulatedToolCalls |-> <<>>,
   currentToolCall |-> None, finishReason |-> None]

\* Mutant: the accumulation state is kept on the adapter instance, one for all calls.
ScopeOnInstance(call) == 1

\* The scope of the declarations: the body of generateStream, one per call.
ScopeOf(call) == call

\* One iteration of the OpenAI loop on the accumulation state st: the state after it
\* and the chunk it yields.
OALocalStep(st, chunk) ==
  LET d == DeltaOf(chunk)
      finish == FinishReasonOf(chunk)
      acc == AccumulateDelta(st.toolCallAcc, d)
      final == OAFinalToolCalls(st.finalToolCalls, finish, acc)
  IN  [state |-> [st EXCEPT !.toolCallAcc = acc, !.finalToolCalls = final],
       chunks |-> <<OAYield(d, finish, final)>>]

\* One iteration of the Anthropic loop on the accumulation state st.
ANLocalStep(st, event) ==
  [state |-> [st EXCEPT
                !.currentToolCall = ANCurrentToolCall(event, st.currentToolCall),
                !.accumulatedToolCalls =
                   ANAccumulated(event, st.currentToolCall, st.accumulatedToolCalls),
                !.finishReason = ANFinishReason(event, st.finishReason)],
   chunks |-> ANYield(event, st.accumulatedToolCalls, st.finishReason)]

LocalStep(st, event) ==
  IF pairProvider = "openai" THEN OALocalStep(st, event) ELSE ANLocalStep(st, event)

\* One of the two calls reads the next event of its backend stream.
CallReads(call) ==
  /\ Len(callEvents[call]) < MaxCallEvents
  /\ \E event \in (IF pairProvider = "openai" THEN PairOAChunks ELSE PairANEvents) :
       LET after == LocalStep(locals[ScopeOf(call)], event)
       IN  /\ locals' = [locals EXCEPT ![ScopeOf(call)] = after.state]
           /\ callEvents' = [callEvents EXCEPT ![call] = Append(@, event)]
           /\ callYielded' = [callYielded EXCEPT ![call] = @ \o after.chunks]
  /\ readOrder' = Append(readOrder, call)
  /\ UNCHANGED pairProvider
  /\ UNCHANGED <<streamVars, convVars, agentVars, facadeVars, consumerVars>>

FirstCallReads == CallReads(1)

SecondCallReads == CallReads(2)

InitPair ==
  /\ pairProvider \in {"openai", "anthropic"}
  /\ locals = [scope \in Calls |-> FreshLocals]
  /\ callEvents = [call \in Calls |-> <<>>]
  /\ callYielded = [call \in Calls |-> <<>>]
  /\ readOrder = <<>>
  /\ StreamIdle
  /\ ConvIdle
  /\ AgentIdle
  /\ FacadeIdle
  /\ ConsumerIdle

NextPair == FirstCallReads \/ SecondCallReads

SpecPair == InitPair /\ [][NextPair]_vars

-----------------------------------------------------------------------------
(* Claims about two calls on one adapter *)

\* What one call alone makes of a sequence of events: its accumulation state and
\* the chunks it yields.
RECURSIVE Alone(_)
Alone(evs) ==
  IF evs = <<>> THEN [state |-> FreshLocals, chunks |-> <<>>]
  ELSE LET before == Alone(SubSeq(evs, 1, Len(evs) - 1))
           after == LocalStep(before.state, Last(evs))
       IN  [state |-> after.state, chunks |-> before.chunks \o after.chunks]

\* C32: with two calls in progress on one adapter and their reads interleaved in any
\* order, the chunks each call has yielded and its tool-call lists are those the call
\* would have alone on its own events.
AccumulatorIsolation ==
  pairProvider # "none"
    => \A call \in Calls :
         /\ callYielded[call] = Alone(callEvents[call]).chunks
         /\ locals[call].finalToolCalls = Alone(callEvents[call]).state.finalToolCalls
         /\ locals[call].accumulatedToolCalls
              = Alone(callEvents[call]).state.accumulatedToolCalls

\* Two OpenAI calls read in turn, each a tool call of its own and then the finish
\* reason; each call's last chunk lists its own tool call only.
AccumulatorIsolationWitness ==
  /\ pairProvider = "openai"
  /\ readOrder = <<1, 2, 1, 2>>
  /\ [i \in 1..Len(ToolCallsOf(Last(callYielded[1]))) |->
        ToolCallsOf(Last(callYielded[1]))[i].id] = <<"call_1">>
  /\ [i \in 1..Len(ToolCallsOf(Last(callYielded[2]))) |->
        ToolCallsOf(Last(callYielded[2]))[i].id] = <<"call_2">>

====
